---- MODULE Spec2Model ----
(***************************************************************************)
(* Model of the e2e test driver of exasol-deployer:                         *)
(*   - the scheduler of tests/e2e/e2e_framework.py (run_tests, the          *)
(*     resource-aware scheduler and the plain worker pool),                 *)
(*   - the workflow executor and the validation registry of                 *)
(*     tests/e2e/workflow_engine.py.                                        *)
(* Spec is the scheduler, SpecWF the workflow executor, SpecQuota the quota  *)
(* monitor, SpecReg the validation registry and SpecRun the worker threads  *)
(* of _run_single_test.  SpecVer is _resolve_db_version, SpecProgress the   *)
(* progress lock, SpecMon the timeout monitor of emergency_handler.py and   *)
(* SpecLive the scheduler under fair scheduling of its threads.             *)
(***************************************************************************)
EXTENDS Integers, Sequences, FiniteSets, TLC

VARIABLES
    \* ---- scheduler (e2e_framework.py) ----
    test_plan,        \* run_tests argument: sequence of test cases
    max_parallel,     \* run_tests argument (CLI override, 0 = use config)
    config,           \* self.config: [max_concurrent_nodes |-> n]
    limits,           \* self.quota_monitor.limits
    stop_on_error,    \* self.stop_on_error
    pc,               \* position of the thread that called run_tests
    mode,             \* "none" | "resource" | "pool": scheduler chosen by run_tests
    max_workers,      \* size of the ThreadPoolExecutor
    pending_tests,    \* sequence of test ids not yet submitted (resource mode)
    running_futures,  \* set of test ids submitted and not yet collected
    nodes_in_use,     \* node counter of the resource-aware scheduler
    done,             \* futures returned by concurrent.futures.wait, still to process
    results,          \* list returned by the scheduler: sequence of [id, success]
    future_state,     \* per test id: "unsubmitted" | "queued" | "running" | "finished"
    success,          \* per test id: result['success'] of _run_single_test
    work_queue,       \* the executor's FIFO work queue (test ids)
    resource_plan_metrics, \* what evaluate_plan gave: the metrics returned or the
                      \* ValueError raised
    cleanups,         \* failed results the scheduler has handled, in order:
                      \* [id, ran], ran = _cleanup_failed_deployment was called
    \* ---- workflow executor (workflow_engine.py) ----
    workflow,         \* execute_workflow argument: sequence of step configs
    wpc,              \* position inside execute_workflow
    step_index,       \* index of the step_config the for loop is at
    step,             \* the WorkflowStep being executed
    wf_results,       \* `results` of execute_workflow: sequence of WorkflowStep
    check_index,      \* index into step.checks inside _execute_validate
    attempt,          \* attempt counter of the retry loop
    check_passed,     \* check_passed of the retry loop
    last_error,       \* last_error of the retry loop
    validation_results, \* local list of _execute_validate
    sleeps,           \* number of time.sleep(delay) calls made by the current retry loop
    invoked,          \* external commands run so far (sequence of command names)
    returncodes,      \* how each of them ended: "exit0" | "nonzero" | "timeout" | "oserror"
    escaped,          \* TRUE when an exception left execute_workflow
    \* ---- validation registry (workflow_engine.py) ----
    check_string,     \* the check name handed to get_check (sequence of tokens)
    state_file,       \* the deployment's .exasol.json: [exists, corrupt, content]
    health_data,      \* what `exasol health --output-format json` gives
    rpc,              \* position of the caller of the registry
    resolved,         \* what get_check gave: a check, nothing, or a ValueError
    check_result,     \* what check_function gave: "True" | "False" | "raise"
    \* ---- worker threads of _run_single_test (e2e_framework.py) ----
    suite_run_counts, \* self.suite_run_counts: runs counted per suite
    run_number,       \* per test id: the local run_number (0 before it is read)
    deploy_dir,       \* per test id: the deployment directory (<<>> before mkdir)
    ssh_validator,    \* self.ssh_validator of the enhanced framework: the
                      \* directory the validator is bound to
    validated,        \* per test id: the directory its enhanced validation read
    tpc,              \* per test id: position of the test's thread
    \* ---- database version resolution (e2e_framework.py) ----
    db_version,       \* self.db_version: the command-line version
    suite_db_version, \* the suite's db_version: nothing, a string or a list
    list_versions,    \* what `./exasol init --list-versions` gives
    resolved_db_version, \* what _resolve_db_version returned
    vpc,              \* position of the caller of _resolve_db_version
    \* ---- result of _run_single_test (e2e_framework.py) ----
    test_result,      \* [success, done]: result['success'] and whether the
                      \* workflow's outcome has been turned into it
    \* ---- progress tracking (e2e_framework.py) ----
    progress_lock,    \* self._progress_lock: the thread holding it, 0 when free
    thread_code,      \* per thread: the lock operations it still has to run
    completed_tests,  \* self._completed_tests
    current_deployment, \* self._current_deployment: a worker's test, 0 for None
    current_step,     \* self._current_step
    \* ---- timeout monitoring (emergency_handler.py), one handler per test ----
    timeout_triggered, \* per test: EmergencyHandler.timeout_triggered
    deadline_passed,  \* per test: datetime.now() >= end_time
    monitor_pc,       \* per test: position of the timeout_monitor thread
    worker_pc,        \* per test: position of the worker in _run_single_test
    expired_before_stop, \* per test: the deadline had passed when
                      \* stop_timeout_monitoring was called
    emergency_summary \* per test: the timeout_triggered value of the summary

sched_vars == <<test_plan, max_parallel, config, limits, stop_on_error, pc, mode,
                max_workers, pending_tests, running_futures, nodes_in_use, done,
                results, future_state, success, work_queue, resource_plan_metrics,
                cleanups>>

wf_vars == <<workflow, wpc, step_index, step, wf_results, check_index, attempt,
             check_passed, last_error, validation_results, sleeps, invoked,
             returncodes, escaped>>

reg_vars == <<check_string, state_file, health_data, rpc, resolved, check_result>>

run_vars == <<suite_run_counts, run_number, deploy_dir, ssh_validator, validated, tpc>>

ver_vars == <<db_version, suite_db_version, list_versions, resolved_db_version, vpc>>

res_vars == <<test_result>>

prog_vars == <<progress_lock, thread_code, completed_tests, current_deployment,
               current_step>>

mon_vars == <<timeout_triggered, deadline_passed, monitor_pc, worker_pc,
              expired_before_stop, emergency_summary>>

ext_vars == <<ver_vars, res_vars, prog_vars, mon_vars>>

core_vars == <<sched_vars, wf_vars, reg_vars, run_vars>>

\* what the actions of one component leave alone
but_ver == <<core_vars, res_vars, prog_vars, mon_vars>>

but_res == <<sched_vars, reg_vars, run_vars, ver_vars, prog_vars, mon_vars>>

but_prog == <<core_vars, ver_vars, res_vars, mon_vars>>

but_mon == <<core_vars, ver_vars, res_vars, prog_vars>>

vars == <<sched_vars, wf_vars, reg_vars, run_vars, ext_vars>>

-----------------------------------------------------------------------------
(* Bounds of the explored inputs *)

MaxTests == 2
MaxSize == 2
MaxNodes == 2
MaxParallel == 2

-----------------------------------------------------------------------------
(* Generic helpers *)

\* dict.get(key, default)
Get(d, key, default) == IF key \in DOMAIN d THEN d[key] ELSE default

Max2(a, b) == IF a >= b THEN a ELSE b

Range(s) == {s[i] : i \in 1..Len(s)}

RECURSIVE SumOver(_, _)
SumOver(f, S) ==
    IF S = {} THEN 0
    ELSE LET x == CHOOSE y \in S : TRUE IN f[x] + SumOver(f, S \ {x})

SeqsUpTo(S, n) == UNION {[1..k -> S] : k \in 0..n}

-----------------------------------------------------------------------------
(* ResourceQuotaMonitor *)

DEFAULT_LIMITS ==
    [max_cluster_size_per_test |-> 8,
     max_total_instances |-> 32,
     max_total_data_volume_gb |-> 20000,
     max_parallel_executions |-> 6,
     default_cluster_size |-> 1,
     default_data_volumes_per_node |-> 1,
     default_data_volume_size |-> 100]

\* ResourceQuotaMonitor.__init__: {**DEFAULT_LIMITS, **limits}
MergeLimits(overrides) ==
    [k \in DOMAIN DEFAULT_LIMITS |-> Get(overrides, k, DEFAULT_LIMITS[k])]

\* mutant of PlanMetrics: the data volume of a test leaves out its cluster size
PlanMetricsVolumePerTest(plan, n, lim) ==
    LET params == [i \in 1..n |-> Get(plan[i], "parameters", <<>>)]
        size == [i \in 1..n |-> Get(params[i], "cluster_size", lim.default_cluster_size)]
        volume == [i \in 1..n |->
                      Get(params[i], "data_volumes_per_node",
                          lim.default_data_volumes_per_node)
                      * Get(params[i], "data_volume_size", lim.default_data_volume_size)]
    IN  [total_instances |-> SumOver(size, 1..n),
         max_cluster_size |-> IF n = 0 THEN 0
                              ELSE CHOOSE x \in Range(size) : \A y \in Range(size) : y <= x,
         total_data_volume_gb |-> SumOver(volume, 1..n)]

\* the metrics the loop of evaluate_plan accumulates over test_plan[1..n]
RECURSIVE PlanMetrics(_, _, _)
PlanMetrics(plan, n, lim) ==
    IF n = 0 THEN [total_instances |-> 0, max_cluster_size |-> 0,
                   total_data_volume_gb |-> 0]
    ELSE LET m == PlanMetrics(plan, n - 1, lim)
             params == Get(plan[n], "parameters", <<>>)
             cluster_size == Get(params, "cluster_size", lim.default_cluster_size)
             dv_per_node == Get(params, "data_volumes_per_node",
                                lim.default_data_volumes_per_node)
             dv_size == Get(params, "data_volume_size", lim.default_data_volume_size)
         IN [total_instances |-> m.total_instances + cluster_size,
             max_cluster_size |-> Max2(m.max_cluster_size, cluster_size),
             total_data_volume_gb |->
                 m.total_data_volume_gb + cluster_size * dv_per_node * dv_size]

\* self.resource_plan_metrics = {} before run_tests has evaluated a plan
NoMetrics == [raised |-> FALSE, label |-> "unset"]

\* mutant of evaluate_plan: no limit is ever found breached
evaluate_plan_permissive(plan, parallel, lim) ==
    LET m == PlanMetrics(plan, Len(plan), lim)
    IN  [raised |-> FALSE, label |-> "ok",
         actual |-> m.total_instances, limit |-> lim.max_total_instances,
         metrics |-> [total_tests |-> Len(plan),
                      total_instances |-> m.total_instances,
                      max_cluster_size |-> m.max_cluster_size,
                      total_data_volume_gb |-> m.total_data_volume_gb,
                      max_parallel_requested |->
                          IF parallel # 0 THEN parallel ELSE Len(plan)]]

\* evaluate_plan: the first limit found breached, in the order the code checks
\* them (the ValueError raised), or the metrics returned
evaluate_plan(plan, parallel, lim) ==
    LET sizes == [i \in 1..Len(plan) |->
                     Get(Get(plan[i], "parameters", <<>>), "cluster_size",
                         lim.default_cluster_size)]
        over == {i \in 1..Len(plan) : sizes[i] > lim.max_cluster_size_per_test}
        m == PlanMetrics(plan, Len(plan), lim)
        requested == IF parallel # 0 THEN parallel ELSE Len(plan)
    IN  IF over # {}
        THEN LET i == CHOOSE j \in over : \A k \in over : j <= k
             IN [raised |-> TRUE, label |-> "cluster_size",
                 actual |-> sizes[i], limit |-> lim.max_cluster_size_per_test]
        ELSE IF m.total_instances > lim.max_total_instances
        THEN [raised |-> TRUE, label |-> "total instances",
              actual |-> m.total_instances, limit |-> lim.max_total_instances]
        ELSE IF m.total_data_volume_gb > lim.max_total_data_volume_gb
        THEN [raised |-> TRUE, label |-> "total data volume (GB)",
              actual |-> m.total_data_volume_gb, limit |-> lim.max_total_data_volume_gb]
        ELSE IF requested > lim.max_parallel_executions
        THEN [raised |-> TRUE, label |-> "max_parallel",
              actual |-> requested, limit |-> lim.max_parallel_executions]
        ELSE [raised |-> FALSE, label |-> "ok",
              actual |-> m.total_instances, limit |-> lim.max_total_instances,
              metrics |-> [total_tests |-> Len(plan),
                           total_instances |-> m.total_instances,
                           max_cluster_size |-> m.max_cluster_size,
                           total_data_volume_gb |-> m.total_data_volume_gb,
                           max_parallel_requested |-> requested]]

-----------------------------------------------------------------------------
(* Scheduler: inputs *)

TestIds == 1..Len(test_plan)

\* test['parameters'].get('cluster_size', 1)
ClusterSize(t) == Get(test_plan[t].parameters, "cluster_size", 1)

ParamSets == {<<>>} \cup {[cluster_size |-> n] : n \in 1..MaxSize}

TestCases == {[parameters |-> p] : p \in ParamSets}

\* the plan of the scheduling scenario: cluster sizes [4,3,1,1] under a budget of 4
ScenarioPlan ==
    <<[parameters |-> [cluster_size |-> 4]], [parameters |-> [cluster_size |-> 3]],
      [parameters |-> [cluster_size |-> 1]], [parameters |-> [cluster_size |-> 1]]>>

\* a plan in which, under a budget of 3, the head of the queue (size 2) does not
\* fit beside the running size-2 test while the size-1 test behind it would
HeadOfLinePlan ==
    <<[parameters |-> [cluster_size |-> 2]], [parameters |-> [cluster_size |-> 1]],
      [parameters |-> [cluster_size |-> 2]]>>

HeadOfLineConfig == [max_concurrent_nodes |-> 3]

\* run_tests docstring: "max_concurrent_nodes=4 allows 1x4n OR 1x3n+1x1n ..."
ScenarioConfig == [max_concurrent_nodes |-> 4]

\* the limits the unit test of the quota monitor configures
TestLimits ==
    [max_cluster_size_per_test |-> 2, max_total_instances |-> 2,
     max_parallel_executions |-> 1]

Plans == SeqsUpTo(TestCases, MaxTests) \cup {ScenarioPlan, HeadOfLinePlan}

Configs == {[max_concurrent_nodes |-> n] : n \in 0..MaxNodes} \cup {ScenarioConfig, HeadOfLineConfig}

\* pending_tests.sort(key=cluster_size, reverse=True): a stable sort, tests of
\* equal size keep their plan order.  Insert id t into the sorted sequence s.
RECURSIVE InsertDesc(_, _)
InsertDesc(s, t) ==
    IF s = <<>> THEN <<t>>
    ELSE IF ClusterSize(Head(s)) >= ClusterSize(t)
         THEN <<Head(s)>> \o InsertDesc(Tail(s), t)
         ELSE <<t>> \o s

\* mutant of SortDesc: the pending queue keeps the order of the plan
SortKept(n) == [i \in 1..n |-> i]

RECURSIVE SortDesc(_)
SortDesc(n) == IF n = 0 THEN <<>> ELSE InsertDesc(SortDesc(n - 1), n)

\* number of worker threads busy with a test
Busy == Cardinality({t \in TestIds : future_state[t] = "running"})

ResultIds == {results[i].id : i \in 1..Len(results)}

\* tests handed to the executor / picked up by a worker / not yet finished
Submitted == {t \in TestIds : future_state[t] # "unsubmitted"}
Begun == {t \in TestIds : future_state[t] \in {"running", "finished"}}
Active == {t \in TestIds : future_state[t] \in {"queued", "running"}}

\* a result with success = False is in the list the scheduler builds
FailureObserved == \E i \in 1..Len(results) : ~results[i].success

-----------------------------------------------------------------------------
(* Scheduler: run_tests *)

\* mutant of config_max_nodes: the CLI override does not disable the node budget
config_max_nodes_kept == Get(config, "max_concurrent_nodes", 0)

\* run_tests: config_max_nodes after the CLI override was taken into account
config_max_nodes ==
    IF max_parallel > 0 THEN 0 ELSE Get(config, "max_concurrent_nodes", 0)

\* run_tests: effective_parallel
effective_parallel ==
    IF max_parallel > 0 THEN max_parallel
    ELSE IF config_max_nodes > 0 THEN Len(test_plan)
    ELSE Max2(1, Len(test_plan))

\* run_tests up to the choice of the scheduler
RunTests ==
    /\ pc = "start"
    /\ IF Len(test_plan) = 0
       THEN /\ pc' = "returned"
            /\ UNCHANGED <<mode, max_workers, pending_tests, resource_plan_metrics>>
       ELSE LET verdict == evaluate_plan(test_plan, effective_parallel, limits)
            IN  /\ resource_plan_metrics' = verdict
                /\ IF verdict.raised
                   THEN /\ pc' = "raised"
                        /\ UNCHANGED <<mode, max_workers, pending_tests>>
                   ELSE IF config_max_nodes > 0
                   THEN /\ mode' = "resource"
                        /\ max_workers' = Len(test_plan)
                        /\ pending_tests' = SortDesc(Len(test_plan))
                        /\ pc' = "admit"
                   ELSE /\ mode' = "pool"
                        /\ max_workers' = effective_parallel
                        /\ pending_tests' = <<>>
                        /\ pc' = "submit"
    /\ UNCHANGED <<test_plan, max_parallel, config, limits, stop_on_error,
                   running_futures, nodes_in_use, done, results, future_state,
                   success, work_queue, cleanups>>
    /\ UNCHANGED <<wf_vars, reg_vars, run_vars, ext_vars>>

\* the node budget the resource-aware scheduler was called with
max_nodes == Get(config, "max_concurrent_nodes", 0)

-----------------------------------------------------------------------------
(* Scheduler: the executor's worker threads *)

\* a worker thread takes the oldest queued work item and calls _run_single_test
WorkerStart ==
    /\ work_queue # <<>>
    /\ Busy < max_workers
    /\ future_state' = [future_state EXCEPT ![Head(work_queue)] = "running"]
    /\ work_queue' = Tail(work_queue)
    /\ UNCHANGED <<test_plan, max_parallel, config, limits, stop_on_error, pc, mode,
                   max_workers, pending_tests, running_futures, nodes_in_use, done,
                   results, success>>
    /\ UNCHANGED <<resource_plan_metrics, cleanups>>
    /\ UNCHANGED <<wf_vars, reg_vars, run_vars, ext_vars>>

\* _run_single_test returns its result dict; the future is done
WorkerFinish ==
    /\ \E t \in TestIds, ok \in BOOLEAN :
          /\ future_state[t] = "running"
          /\ future_state' = [future_state EXCEPT ![t] = "finished"]
          /\ success' = [success EXCEPT ![t] = ok]
    /\ UNCHANGED <<test_plan, max_parallel, config, limits, stop_on_error, pc, mode,
                   max_workers, pending_tests, running_futures, nodes_in_use, done,
                   results, work_queue>>
    /\ UNCHANGED <<resource_plan_metrics, cleanups>>
    /\ UNCHANGED <<wf_vars, reg_vars, run_vars, ext_vars>>

-----------------------------------------------------------------------------
(* Scheduler: _run_tests_with_resource_scheduling *)

\* mutant of HeadFits: the budget is compared off by one
HeadFitsOffByOne ==
    /\ pending_tests # <<>>
    /\ nodes_in_use + ClusterSize(Head(pending_tests)) <= max_nodes + 1

\* mutant of HeadFits: the head is admitted whenever any capacity is left
HeadFitsAnyCapacity ==
    /\ pending_tests # <<>>
    /\ nodes_in_use < max_nodes

\* while pending_tests: ... if nodes_in_use + cluster_size <= max_nodes
HeadFits ==
    /\ pending_tests # <<>>
    /\ nodes_in_use + ClusterSize(Head(pending_tests)) <= max_nodes

\* `if not result['success']`: the cleanup log after the result of `future` was
\* handled; exists is deploy_dir.exists().  _cleanup_failed_deployment runs the
\* destroy command once and returns normally whatever its outcome is (non-zero
\* exit, TimeoutExpired and every other Exception are logged and swallowed), so
\* the outcome leaves no trace in the scheduler's state.
CleanupsAfter(future, exists) ==
    IF success[future]
    THEN cleanups
    ELSE Append(cleanups, [id |-> future, ran |-> exists])

\* mutant of Released: a completion releases one node
ReleasedOne(future) == 1

\* test, cluster_size = running_futures.pop(future): the nodes reserved for
\* the future at its admission
Released(future) == ClusterSize(future)

\* mutant of PendingAfter: a failure does not clear the queue
PendingAfterKept(future) == pending_tests

\* the pending queue after the result of `future` was processed:
\* pending_tests.clear() on a failure under stop_on_error
PendingAfter(future) ==
    IF ~success[future] /\ stop_on_error THEN <<>> ELSE pending_tests

\* inner while loop, the head of the queue fits: pop it and submit it
Admit ==
    /\ pc = "admit"
    /\ HeadFits
    /\ LET test == Head(pending_tests) IN
          /\ pending_tests' = Tail(pending_tests)
          /\ work_queue' = Append(work_queue, test)
          /\ future_state' = [future_state EXCEPT ![test] = "queued"]
          /\ running_futures' = running_futures \cup {test}
          /\ nodes_in_use' = nodes_in_use + ClusterSize(test)
    /\ UNCHANGED <<test_plan, max_parallel, config, limits, stop_on_error, pc, mode,
                   max_workers, done, results, success>>
    /\ UNCHANGED <<resource_plan_metrics, cleanups>>
    /\ UNCHANGED <<wf_vars, reg_vars, run_vars, ext_vars>>

\* mutant of AfterAdmission: the scheduler waits also when nothing is running
AfterAdmissionWaits(running) == "wait"

\* if not running_futures: break; otherwise concurrent.futures.wait(...)
AfterAdmission(running) == IF running = {} THEN "shutdown" ELSE "wait"

\* inner while loop ends (queue empty or head does not fit): leave the outer
\* loop when nothing is running, otherwise go and wait
AdmitEnd ==
    /\ pc = "admit"
    /\ ~HeadFits
    /\ pc' = AfterAdmission(running_futures)
    /\ UNCHANGED <<test_plan, max_parallel, config, limits, stop_on_error, mode,
                   max_workers, pending_tests, running_futures, nodes_in_use, done,
                   results, future_state, success, work_queue>>
    /\ UNCHANGED <<resource_plan_metrics, cleanups>>
    /\ UNCHANGED <<wf_vars, reg_vars, run_vars, ext_vars>>

\* concurrent.futures.wait(..., FIRST_COMPLETED) returns the futures that are done
Wait ==
    /\ pc = "wait"
    /\ \E t \in running_futures : future_state[t] = "finished"
    /\ done' = {t \in running_futures : future_state[t] = "finished"}
    /\ pc' = "collect"
    /\ UNCHANGED <<test_plan, max_parallel, config, limits, stop_on_error, mode,
                   max_workers, pending_tests, running_futures, nodes_in_use,
                   results, future_state, success, work_queue>>
    /\ UNCHANGED <<resource_plan_metrics, cleanups>>
    /\ UNCHANGED <<wf_vars, reg_vars, run_vars, ext_vars>>

\* one iteration of `for future in done`; after the last one the outer loop
\* condition `pending_tests or running_futures` is evaluated
Collect ==
    /\ pc = "collect"
    /\ \E future \in done :
          LET pending == PendingAfter(future)
              running == running_futures \ {future}
          IN  /\ running_futures' = running
              /\ nodes_in_use' = nodes_in_use - Released(future)
              /\ results' = Append(results, [id |-> future, success |-> success[future]])
              /\ \E exists \in BOOLEAN : cleanups' = CleanupsAfter(future, exists)
              /\ pending_tests' = pending
              /\ done' = done \ {future}
              /\ pc' = IF done \ {future} # {} THEN "collect"
                       ELSE IF pending # <<>> \/ running # {} THEN "admit"
                       ELSE "shutdown"
    /\ UNCHANGED <<test_plan, max_parallel, config, limits, stop_on_error, mode,
                   max_workers, future_state, success, work_queue>>
    /\ UNCHANGED resource_plan_metrics
    /\ UNCHANGED <<wf_vars, reg_vars, run_vars, ext_vars>>

-----------------------------------------------------------------------------
(* Scheduler: _run_tests_with_thread_pool *)

\* the dict comprehension submits every test of the plan, in plan order
SubmitAll ==
    /\ pc = "submit"
    /\ work_queue' = [i \in 1..Len(test_plan) |-> i]
    /\ future_state' = [t \in TestIds |-> "queued"]
    /\ running_futures' = TestIds
    /\ pc' = "as_completed"
    /\ UNCHANGED <<test_plan, max_parallel, config, limits, stop_on_error, mode,
                   max_workers, pending_tests, nodes_in_use, done, results, success>>
    /\ UNCHANGED <<resource_plan_metrics, cleanups>>
    /\ UNCHANGED <<wf_vars, reg_vars, run_vars, ext_vars>>

\* one iteration of `for future in as_completed(future_to_test)`: break on a
\* failure under stop_on_error, leave the loop after the last future
AsCompleted ==
    /\ pc = "as_completed"
    /\ \E future \in running_futures :
          /\ future_state[future] = "finished"
          /\ results' = Append(results, [id |-> future, success |-> success[future]])
          /\ \E exists \in BOOLEAN : cleanups' = CleanupsAfter(future, exists)
          /\ running_futures' = running_futures \ {future}
          /\ pc' = IF ~success[future] /\ stop_on_error THEN "shutdown"
                   ELSE IF running_futures \ {future} = {} THEN "shutdown"
                   ELSE "as_completed"
    /\ UNCHANGED <<test_plan, max_parallel, config, limits, stop_on_error, mode,
                   max_workers, pending_tests, nodes_in_use, done, future_state,
                   success, work_queue>>
    /\ UNCHANGED resource_plan_metrics
    /\ UNCHANGED <<wf_vars, reg_vars, run_vars, ext_vars>>

\* leaving `with ThreadPoolExecutor(...)`: shutdown(wait=True) joins the workers,
\* which first run every work item still queued; then the scheduler returns results
Shutdown ==
    /\ pc = "shutdown"
    /\ \A t \in TestIds : future_state[t] \in {"unsubmitted", "finished"}
    /\ pc' = "returned"
    /\ UNCHANGED <<test_plan, max_parallel, config, limits, stop_on_error, mode,
                   max_workers, pending_tests, running_futures, nodes_in_use, done,
                   results, future_state, success, work_queue>>
    /\ UNCHANGED <<resource_plan_metrics, cleanups>>
    /\ UNCHANGED <<wf_vars, reg_vars, run_vars, ext_vars>>

-----------------------------------------------------------------------------
(* Scheduler: specification *)

RegIdle ==
    /\ check_string = <<>>
    /\ state_file = [exists |-> FALSE, corrupt |-> FALSE, content |-> <<>>]
    /\ health_data = <<>>
    /\ rpc = "idle"
    /\ resolved = [outcome |-> "none"]
    /\ check_result = "unset"

RunIdle ==
    /\ suite_run_counts = <<>>
    /\ run_number = <<>>
    /\ deploy_dir = <<>>
    /\ ssh_validator = <<>>
    /\ validated = <<>>
    /\ tpc = <<>>

VerIdle ==
    /\ db_version = <<>>
    /\ suite_db_version = <<>>
    /\ list_versions = <<>>
    /\ resolved_db_version = <<>>
    /\ vpc = "idle"

\* result = {..., 'success': False, ...}
ResIdle == test_result = [success |-> FALSE, done |-> FALSE]

\* self._progress_lock = threading.Lock() and the progress fields of __init__
ProgIdle ==
    /\ progress_lock = 0
    /\ thread_code = <<>>
    /\ completed_tests = 0
    /\ current_deployment = 0
    /\ current_step = "None"

\* no EmergencyHandler has been built
MonIdle ==
    /\ timeout_triggered = <<>>
    /\ deadline_passed = <<>>
    /\ monitor_pc = <<>>
    /\ worker_pc = <<>>
    /\ expired_before_stop = <<>>
    /\ emergency_summary = <<>>

ExtIdle == VerIdle /\ ResIdle /\ ProgIdle /\ MonIdle

WfIdle ==
    /\ workflow = <<>>
    /\ wpc = "idle"
    /\ step_index = 0
    /\ step = <<>>
    /\ wf_results = <<>>
    /\ check_index = 0
    /\ attempt = 0
    /\ check_passed = FALSE
    /\ last_error = 0
    /\ validation_results = <<>>
    /\ sleeps = 0
    /\ invoked = <<>>
    /\ returncodes = <<>>
    /\ escaped = FALSE

Init ==
    /\ test_plan \in Plans
    /\ max_parallel \in 0..MaxParallel
    /\ config \in Configs
    /\ limits \in {MergeLimits(<<>>), MergeLimits(TestLimits)}
    /\ stop_on_error \in BOOLEAN
    /\ pc = "start"
    /\ mode = "none"
    /\ max_workers = 0
    /\ pending_tests = <<>>
    /\ running_futures = {}
    /\ nodes_in_use = 0
    /\ done = {}
    /\ results = <<>>
    /\ future_state = [t \in 1..Len(test_plan) |-> "unsubmitted"]
    /\ success = [t \in 1..Len(test_plan) |-> FALSE]
    /\ work_queue = <<>>
    /\ resource_plan_metrics = NoMetrics
    /\ cleanups = <<>>
    /\ WfIdle
    /\ RegIdle
    /\ RunIdle
    /\ ExtIdle

Next ==
    \/ RunTests
    \/ WorkerStart
    \/ WorkerFinish
    \/ Admit
    \/ AdmitEnd
    \/ Wait
    \/ Collect
    \/ SubmitAll
    \/ AsCompleted
    \/ Shutdown

Spec == Init /\ [][Next]_vars

\* the scheduler under fair scheduling of its threads: a worker that can start
\* or finish a test eventually does (every started test eventually finishes),
\* and the thread that called run_tests eventually takes its next step
SchedulerStep ==
    RunTests \/ Admit \/ AdmitEnd \/ Wait \/ Collect \/ SubmitAll \/ AsCompleted \/ Shutdown

\* the runs explored under fairness: every test of the plan states its
\* cluster_size, and max_parallel is left at 0 or set to the largest override
InitLive ==
    /\ Init
    /\ \A t \in TestIds : "cluster_size" \in DOMAIN test_plan[t].parameters
    /\ max_parallel \in {0, MaxParallel}

SpecLive ==
    /\ InitLive
    /\ [][Next]_vars
    /\ WF_vars(WorkerStart \/ WorkerFinish)
    /\ WF_vars(SchedulerStep)

-----------------------------------------------------------------------------
(* ResourceQuotaMonitor: specification of evaluate_plan on its own *)

\* the parameters of the planned tests: absent, a cluster size alone, the valid
\* plan of the unit test, and two data volumes per node
QuotaParamSets ==
    {<<>>, [cluster_size |-> 1], [cluster_size |-> 3],
     [cluster_size |-> 2, data_volumes_per_node |-> 1, data_volume_size |-> 50],
     [cluster_size |-> 1, data_volumes_per_node |-> 2]}

\* test cases; test.get('parameters', {}) also accepts one without parameters
QuotaTestCases == {[parameters |-> p] : p \in QuotaParamSets} \cup {[suite |-> "s"]}

QuotaPlans == SeqsUpTo(QuotaTestCases, MaxTests)

\* the plan and the limits of the quota scenario: one test of cluster size 3
\* under max_total_instances = 2
QuotaScenarioPlan == <<[parameters |-> [cluster_size |-> 3]]>>

QuotaScenarioLimits == [max_total_instances |-> 2]

QuotaLimits ==
    {MergeLimits(<<>>), MergeLimits(TestLimits), MergeLimits(QuotaScenarioLimits),
     MergeLimits([max_total_data_volume_gb |-> 150]),
     MergeLimits([max_parallel_executions |-> 1])}

InitQuota ==
    /\ test_plan \in QuotaPlans
    /\ max_parallel \in 0..MaxParallel
    /\ limits \in QuotaLimits
    /\ config = <<>>
    /\ stop_on_error = FALSE
    /\ pc = "quota"
    /\ mode = "none"
    /\ max_workers = 0
    /\ pending_tests = <<>>
    /\ running_futures = {}
    /\ nodes_in_use = 0
    /\ done = {}
    /\ results = <<>>
    /\ future_state = <<>>
    /\ success = <<>>
    /\ work_queue = <<>>
    /\ resource_plan_metrics = NoMetrics
    /\ cleanups = <<>>
    /\ WfIdle
    /\ RegIdle
    /\ RunIdle
    /\ ExtIdle

\* monitor.evaluate_plan(test_plan, max_parallel)
EvaluatePlan ==
    /\ pc = "quota"
    /\ resource_plan_metrics' = evaluate_plan(test_plan, max_parallel, limits)
    /\ pc' = "evaluated"
    /\ UNCHANGED <<test_plan, max_parallel, config, limits, stop_on_error, mode,
                   max_workers, pending_tests, running_futures, nodes_in_use, done,
                   results, future_state, success, work_queue, cleanups>>
    /\ UNCHANGED <<wf_vars, reg_vars, run_vars, ext_vars>>

NextQuota == EvaluatePlan

SpecQuota == InitQuota /\ [][NextQuota]_vars

-----------------------------------------------------------------------------
(* Validation registry: check strings                                       *)
(*                                                                          *)
(* A check string is modelled as the sequence of its tokens: the string is  *)
(* the concatenation of the tokens, and no token holds '=' or '!' except    *)
(* the operator tokens "==" and "!=".                                       *)

IndexFrom(s, from, toks) ==
    IF \E i \in from..Len(s) : s[i] \in toks
    THEN CHOOSE i \in from..Len(s) : s[i] \in toks /\ \A j \in from..(i - 1) : s[j] \notin toks
    ELSE 0

\* substring in string
Contains(s, tok) == \E i \in 1..Len(s) : s[i] = tok

\* tokens of the model's alphabet whose text starts with "cluster_status"
ClusterStatusPrefixed == {"cluster_status", "cluster_status_typo"}

\* str.strip(): blanks removed at both ends
RECURSIVE LStrip(_)
LStrip(s) == IF s # <<>> /\ Head(s) = " " THEN LStrip(Tail(s)) ELSE s

RECURSIVE RStrip(_)
RStrip(s) ==
    IF s # <<>> /\ s[Len(s)] = " " THEN RStrip(SubSeq(s, 1, Len(s) - 1)) ELSE s

Strip(s) == RStrip(LStrip(s))

\* str.lower() on the tokens of the alphabet
Lower(tok) ==
    CASE tok = "OK" -> "ok"
      [] tok = "FAILED" -> "failed"
      [] tok = "True" -> "true"
      [] tok = "False" -> "false"
      [] OTHER -> tok

LowerSeq(s) == [i \in 1..Len(s) |-> Lower(s[i])]

\* ValidationCheck(name, description, check_function): allow_failure and
\* retry_config keep their dataclass defaults
ValidationCheck(name, kind, operator, expected, selector, component) ==
    [outcome |-> "check", name |-> name, kind |-> kind, operator |-> operator,
     expected |-> expected, node_selector |-> selector, component |-> component,
     allow_failure |-> FALSE, retry_config |-> <<>>]

NoCheck == [outcome |-> "none"]

RaisedIn(msg, name) == [outcome |-> "raise", error |-> [msg |-> msg, detail |-> name]]

\* _create_cluster_status_check: split at the first "==", else at the first "!="
create_cluster_status_check(check_name) ==
    LET eq == IndexFrom(check_name, 1, {"=="})
        ne == IndexFrom(check_name, 1, {"!="})
        operator == IF eq # 0 THEN "==" ELSE IF ne # 0 THEN "!=" ELSE "=="
        expected == IF eq # 0 THEN SubSeq(check_name, eq + 1, Len(check_name))
                    ELSE IF ne # 0 THEN SubSeq(check_name, ne + 1, Len(check_name))
                    ELSE <<"database_ready">>
    IN  ValidationCheck(check_name, "cluster_status", operator, Strip(expected),
                        <<>>, <<>>)

valid_components == {<<"ssh">>, <<"adminui">>, <<"database">>, <<"cos_ssh">>}

\* mutant of MappedExpected: "ok" and "failed" are not mapped
MappedExpectedUnmapped(expected_value) == expected_value

\* value_map.get(expected_value.lower(), expected_value)
MappedExpected(expected_value) ==
    LET low == LowerSeq(expected_value)
    IN  IF low = <<"ok">> THEN <<"true">>
        ELSE IF low = <<"failed">> THEN <<"false">>
        ELSE expected_value

\* re.match(r'health_status\[([^\]]+)\]\.([^=!]+)(==|!=)(.+)', check_name):
\* the positions of "]" and of the operator, or <<0, 0>> when there is no match
HealthMatch(s) ==
    LET close == IndexFrom(s, 3, {"]"})
        op == IF close = 0 THEN 0 ELSE IndexFrom(s, close + 2, {"==", "!="})
    IN  IF /\ Len(s) >= 2 /\ s[1] = "health_status" /\ s[2] = "["
           /\ close > 3
           /\ Len(s) >= close + 1 /\ s[close + 1] = "."
           /\ op > close + 2
           /\ Len(s) > op
        THEN <<close, op>>
        ELSE <<0, 0>>

\* mutant of create_health_status_check: the check keeps the mapped value in
\* place of the value that was written
create_health_status_check_mapped(check_name) ==
    LET m == HealthMatch(check_name)
        node_selector == Strip(SubSeq(check_name, 3, m[1] - 1))
        component == Strip(SubSeq(check_name, m[1] + 2, m[2] - 1))
        operator == check_name[m[2]]
        expected_value == Strip(SubSeq(check_name, m[2] + 1, Len(check_name)))
    IN  IF m = <<0, 0>>
        THEN RaisedIn("Invalid health_status check format", check_name)
        ELSE IF component \notin valid_components
        THEN RaisedIn("Unknown health check component", check_name)
        ELSE ValidationCheck(check_name, "health_status", operator,
                             MappedExpected(expected_value), node_selector, component)

\* _create_health_status_check
create_health_status_check(check_name) ==
    LET m == HealthMatch(check_name)
        node_selector == Strip(SubSeq(check_name, 3, m[1] - 1))
        component == Strip(SubSeq(check_name, m[1] + 2, m[2] - 1))
        operator == check_name[m[2]]
        expected_value == Strip(SubSeq(check_name, m[2] + 1, Len(check_name)))
    IN  IF m = <<0, 0>>
        THEN RaisedIn("Invalid health_status check format", check_name)
        ELSE IF component \notin valid_components
        THEN RaisedIn("Unknown health check component", check_name)
        ELSE ValidationCheck(check_name, "health_status", operator, expected_value,
                             node_selector, component)

\* self.checks: _register_default_checks registers nothing
registered_checks == <<>>

\* ValidationRegistry.get_check
get_check(check_name) ==
    IF /\ check_name # <<>> /\ check_name[1] \in ClusterStatusPrefixed
       /\ (Contains(check_name, "==") \/ Contains(check_name, "!="))
    THEN create_cluster_status_check(check_name)
    ELSE IF Len(check_name) >= 2 /\ check_name[1] = "health_status" /\ check_name[2] = "["
    THEN create_health_status_check(check_name)
    ELSE IF check_name \in DOMAIN registered_checks
    THEN registered_checks[check_name]
    ELSE NoCheck

-----------------------------------------------------------------------------
(* Validation registry: check functions *)

MaxCount == 1

\* _read_state: the parsed .exasol.json, {} when the file does not exist
ReadState(file) == IF file.exists THEN file.content ELSE <<>>

\* mutant of ActualStatus: a missing status counts as database_ready
ActualStatusDefaultReady(state) == Get(state, "status", <<"database_ready">>)

\* actual = state.get('status', '')
ActualStatus(state) == Get(state, "status", <<>>)

\* check_func of _create_cluster_status_check: actual == expected, or
\* actual != expected
ClusterStatusResult(operator, actual, expected) ==
    IF operator = "==" THEN actual = expected ELSE actual # expected

\* mapped_expected.lower() == 'true'
ExpectsOk(expected_value) == LowerSeq(MappedExpected(expected_value)) = <<"true">>

\* mutant of FleetResult: a component without failures is ok, whether or not
\* anything passed
FleetResultNoFailures(operator, expected_value, passed, failed) ==
    IF operator = "=="
    THEN IF ExpectsOk(expected_value) THEN failed = 0 ELSE failed > 0
    ELSE IF ExpectsOk(expected_value) THEN failed > 0 \/ passed = 0
         ELSE failed = 0

\* mutant of FleetResult: !=ok holds only when something failed
FleetResultNotOkNeedsFailure(operator, expected_value, passed, failed) ==
    IF operator = "=="
    THEN IF ExpectsOk(expected_value) THEN failed = 0 /\ passed > 0 ELSE failed > 0
    ELSE IF ExpectsOk(expected_value) THEN failed > 0
         ELSE failed = 0 /\ passed > 0

\* check_func of _create_health_status_check, branch node_selector == '*'
FleetResult(operator, expected_value, passed, failed) ==
    IF operator = "=="
    THEN IF ExpectsOk(expected_value) THEN failed = 0 /\ passed > 0 ELSE failed > 0
    ELSE IF ExpectsOk(expected_value) THEN failed > 0 \/ passed = 0
         ELSE failed = 0 /\ passed > 0

\* mutant of NodesResult: named nodes are not held to the fleet's counts
NodesResultUnchecked(operator, expected_value, passed, failed) == operator = "=="

\* check_func of _create_health_status_check, branch of named nodes ("Fall
\* back to checking overall health")
NodesResult(operator, expected_value, passed, failed) ==
    IF operator = "=="
    THEN IF ExpectsOk(expected_value) THEN failed = 0 /\ passed > 0 ELSE failed > 0
    ELSE IF ExpectsOk(expected_value) THEN failed > 0 \/ passed = 0
         ELSE failed = 0 /\ passed > 0

\* a Python bool as the model's text
Bool(b) == IF b THEN "True" ELSE "False"

\* check.check_function(context): "True", "False", or "raise" when reading the
\* state file or starting the health command raises
CheckFunction(chk, file, health) ==
    IF chk.kind = "cluster_status"
    THEN IF file.exists /\ file.corrupt
         THEN "raise"
         ELSE Bool(ClusterStatusResult(chk.operator, ActualStatus(ReadState(file)),
                                       chk.expected))
    ELSE IF "oserror" \in DOMAIN health
    THEN "raise"
    ELSE IF DOMAIN health = {}
    THEN "False"
    ELSE LET check_key == chk.component[1] IN
         IF "checks" \notin DOMAIN health
         THEN "False"
         ELSE IF check_key \notin DOMAIN health.checks
         THEN "False"
         ELSE LET check_data == health.checks[check_key]
                  passed == Get(check_data, "passed", 0)
                  failed == Get(check_data, "failed", 0)
              IN  IF chk.node_selector = <<"*">>
                  THEN Bool(FleetResult(chk.operator, chk.expected, passed, failed))
                  ELSE Bool(NodesResult(chk.operator, chk.expected, passed, failed))

-----------------------------------------------------------------------------
(* Workflow executor: inputs *)

MaxSteps == 2
MaxChecks == 2
MaxAttempts == 2

NoError == [msg |-> "None", detail |-> <<>>]

Error(msg, detail) == [msg |-> msg, detail |-> detail]

CS_ready == <<"cluster_status", "==", "database_ready">>
CS_bare == <<"cluster_status">>
HS_ssh == <<"health_status", "[", "*", "]", ".", "ssh", "==", "ok">>
HS_badcomponent == <<"health_status", "[", "*", "]", ".", "services", "==", "ok">>
HS_nooperator == <<"health_status", "[", "n11", "]", ".", "ssh">>
Unknown_check == <<"ssh_connectivity">>

CheckStrings == {CS_ready, CS_bare, HS_ssh, HS_badcomponent, HS_nooperator, Unknown_check}

\* retry: absent, or {max_attempts: n, delay_seconds: 1}
RetryConfigs == {[max_attempts |-> n, delay_seconds |-> 1] : n \in 0..MaxAttempts}

AllowSets == {{}, {CS_ready}, {HS_badcomponent}}

\* validate step configs, with every combination of checks, allow_failures and retry
ValidateConfigs ==
    {[step |-> "validate", checks |-> c, allow_failures |-> a] :
        c \in SeqsUpTo(CheckStrings, MaxChecks), a \in AllowSets}
    \cup
    {[step |-> "validate", checks |-> c, allow_failures |-> a, retry |-> r] :
        c \in SeqsUpTo(CheckStrings, MaxChecks) \ {<<>>}, a \in AllowSets,
        r \in RetryConfigs}

\* the step configs workflows of several steps are built from
BasicConfigs ==
    {[step |-> k] : k \in {"init", "deploy", "stop_cluster", "start_cluster", "destroy",
                           "restart_node", "custom_command", "crash"}}
    \cup {[step |-> "restart_node", target_node |-> "n11"],
          [step |-> "restart_node", target_node |-> "n11", method |-> "reboot"],
          [step |-> "custom_command", command |-> "true"],
          [step |-> "custom_command", script |-> "check.sh"],
          [step |-> "custom_command", command |-> "true",
           retry |-> [max_attempts |-> MaxAttempts, delay_seconds |-> 1]],
          [description |-> "no step key"],
          [step |-> "validate", checks |-> <<CS_ready>>],
          [step |-> "validate", checks |-> <<HS_ssh>>, allow_failures |-> {HS_ssh}]}

\* init, deploy, a validate step with one check that is not allowed to fail, destroy
ScenarioWorkflow ==
    <<[step |-> "init"], [step |-> "deploy"],
      [step |-> "validate", checks |-> <<CS_ready>>], [step |-> "destroy"]>>

\* the retry scenario: max_attempts=3, delay_seconds=1
ScenarioRetry == [max_attempts |-> 3, delay_seconds |-> 1]

\* one validate step and one custom_command step under the scenario's retry policy
RetryWorkflows ==
    {<<[step |-> "validate", checks |-> <<CS_ready>>, retry |-> ScenarioRetry]>>,
     <<[step |-> "custom_command", command |-> "true", retry |-> ScenarioRetry]>>,
     <<[step |-> "custom_command", command |-> "true",
        retry |-> [max_attempts |-> 0, delay_seconds |-> 1]]>>}

Workflows ==
    SeqsUpTo(BasicConfigs, MaxSteps)
    \cup {<<v>> : v \in ValidateConfigs}
    \cup {ScenarioWorkflow}
    \cup RetryWorkflows

-----------------------------------------------------------------------------
(* Workflow executor: execute_workflow and _execute_step *)

\* _parse_step_config: WorkflowStep(...) with the dataclass defaults
parse_step_config(cfg) ==
    [step_type |-> cfg.step,
     status |-> "pending",
     error |-> NoError,
     result |-> [kind |-> "None"],
     validation_results |-> <<>>,
     target_node |-> Get(cfg, "target_node", "None"),
     method |-> Get(cfg, "method", "None"),
     command |-> Get(cfg, "command", "None"),
     script |-> Get(cfg, "script", "None"),
     checks |-> Get(cfg, "checks", <<>>),
     allow_failures |-> Get(cfg, "allow_failures", {}),
     retry |-> Get(cfg, "retry", <<>>)]

StepTypes == {"init", "deploy", "validate", "stop_cluster", "start_cluster",
              "restart_node", "custom_command", "destroy"}

\* mutant of StepConfigAt: the workflow is walked from its end
StepConfigReversed(i) == workflow[Len(workflow) + 1 - i]

\* for step_config in workflow: the i-th config the loop hands out
StepConfigAt(i) == workflow[i]

\* mutant of Halts: a failed step does not end the workflow
HaltsNever(st) == FALSE

\* if step_result.status == StepStatus.FAILED: break
Halts(st) == st.status = "failed"

\* for step_config in workflow: parse the config and enter _execute_step
\* (status RUNNING); config['step'] raises KeyError when the key is missing
BeginStep ==
    /\ wpc = "loop"
    /\ step_index <= Len(workflow)
    /\ IF "step" \in DOMAIN StepConfigAt(step_index)
       THEN /\ step' = [parse_step_config(StepConfigAt(step_index))
                            EXCEPT !.status = "running"]
            /\ wpc' = "step"
            /\ UNCHANGED escaped
       ELSE /\ escaped' = TRUE
            /\ wpc' = "raised"
            /\ UNCHANGED step
    /\ UNCHANGED <<workflow, step_index, wf_results, check_index, attempt, check_passed,
                   last_error, validation_results, sleeps, invoked, returncodes>>
    /\ UNCHANGED <<sched_vars, reg_vars, run_vars, ext_vars>>

\* the for loop is exhausted: return results
ReturnResults ==
    /\ wpc = "loop"
    /\ step_index > Len(workflow)
    /\ wpc' = "returned"
    /\ UNCHANGED <<workflow, step_index, step, wf_results, check_index, attempt,
                   check_passed, last_error, validation_results, sleeps, invoked, returncodes, escaped>>
    /\ UNCHANGED <<sched_vars, reg_vars, run_vars, ext_vars>>

\* _execute_step: the handler returned, status COMPLETED
Completed(st, result) == [st EXCEPT !.status = "completed", !.result = result]

\* mutant of Failed: the exception of a handler is swallowed
FailedAsCompleted(st, err) == [st EXCEPT !.status = "completed"]

\* _execute_step: except Exception: status FAILED, error = str(e)
Failed(st, err) == [st EXCEPT !.status = "failed", !.error = err]

\* outcomes of an external process run through _run_command_with_streaming
CommandOutcomes == {"exit0", "nonzero", "timeout", "oserror"}

\* a handler that runs one exasol subcommand: RuntimeError on a non-zero exit,
\* TimeoutExpired / OSError from _run_command_with_streaming
RunExasol(kind, failure) ==
    /\ wpc = "step"
    /\ step.step_type = kind
    /\ \E outcome \in CommandOutcomes :
          /\ step' = IF outcome = "exit0" THEN Completed(step, [kind |-> "output"])
                     ELSE IF outcome = "nonzero" THEN Failed(step, Error(failure, <<"stderr">>))
                     ELSE Failed(step, Error(outcome, <<kind>>))
          /\ invoked' = Append(invoked, kind)
          /\ returncodes' = Append(returncodes, outcome)
    /\ wpc' = "end_step"
    /\ UNCHANGED <<workflow, step_index, wf_results, check_index, attempt, check_passed,
                   last_error, validation_results, sleeps, escaped>>
    /\ UNCHANGED <<sched_vars, reg_vars, run_vars, ext_vars>>

ExecuteInit == RunExasol("init", "Init failed")

\* mutant of ExecuteDeploy: a failure of the deploy command is not caught by
\* _execute_step and leaves execute_workflow
ExecuteDeployUncaught ==
    /\ wpc = "step"
    /\ step.step_type = "deploy"
    /\ \E outcome \in CommandOutcomes :
          /\ invoked' = Append(invoked, "deploy")
          /\ returncodes' = Append(returncodes, outcome)
          /\ IF outcome = "exit0"
             THEN /\ step' = Completed(step, [kind |-> "output"])
                  /\ wpc' = "end_step"
                  /\ UNCHANGED escaped
             ELSE /\ escaped' = TRUE
                  /\ wpc' = "raised"
                  /\ UNCHANGED step
    /\ UNCHANGED <<workflow, step_index, wf_results, check_index, attempt, check_passed,
                   last_error, validation_results, sleeps>>
    /\ UNCHANGED <<sched_vars, reg_vars, run_vars, ext_vars>>

ExecuteDeploy == RunExasol("deploy", "Deploy failed")

ExecuteStopCluster == RunExasol("stop_cluster", "Stop cluster failed")

ExecuteStartCluster == RunExasol("start_cluster", "Start cluster failed")

\* mutant of ExecuteDestroy: the executor runs destroy on its own once a step
\* has failed, as a rollback
ExecuteDestroyAsRollback ==
    /\ wpc = "end_step"
    /\ step.status = "failed"
    /\ invoked = <<>> \/ invoked[Len(invoked)] # "destroy"
    /\ invoked' = Append(invoked, "destroy")
    /\ returncodes' = Append(returncodes, "exit0")
    /\ UNCHANGED <<workflow, wpc, step_index, step, wf_results, check_index, attempt,
                   check_passed, last_error, validation_results, sleeps, escaped>>
    /\ UNCHANGED <<sched_vars, reg_vars, run_vars, ext_vars>>

ExecuteDestroy == RunExasol("destroy", "Destroy failed")

\* _execute_step: else: raise ValueError("Unknown step type")
ExecuteUnknown ==
    /\ wpc = "step"
    /\ step.step_type \notin StepTypes
    /\ step' = Failed(step, Error("Unknown step type", <<step.step_type>>))
    /\ wpc' = "end_step"
    /\ UNCHANGED <<workflow, step_index, wf_results, check_index, attempt, check_passed,
                   last_error, validation_results, sleeps, invoked, returncodes, escaped>>
    /\ UNCHANGED <<sched_vars, reg_vars, run_vars, ext_vars>>

\* _execute_restart_node: the inventory is read, then `ssh <node> sudo reboot`
\* runs; its exit code is not looked at, a timeout raises
ExecuteRestartNode ==
    /\ wpc = "step"
    /\ step.step_type = "restart_node"
    /\ IF step.target_node = "None"
       THEN /\ step' = Failed(step, Error("target_node is required for restart_node", <<>>))
            /\ UNCHANGED <<invoked, returncodes>>
       ELSE IF step.method \notin {"None", "ssh"}
       THEN /\ step' = Failed(step, Error("Only method='ssh' is supported", <<step.method>>))
            /\ UNCHANGED <<invoked, returncodes>>
       ELSE \E inventory \in {"missing", "no_such_node", "found"} :
              IF inventory = "missing"
              THEN /\ step' = Failed(step, Error("Inventory file not found", <<>>))
                   /\ UNCHANGED <<invoked, returncodes>>
              ELSE IF inventory = "no_such_node"
              THEN /\ step' = Failed(step, Error("Could not find node", <<step.target_node>>))
                   /\ UNCHANGED <<invoked, returncodes>>
              ELSE \E outcome \in CommandOutcomes :
                     /\ step' = IF outcome \in {"exit0", "nonzero"}
                                THEN Completed(step, [kind |-> "ssh"])
                                ELSE Failed(step, Error(outcome, <<"restart_node">>))
                     /\ invoked' = Append(invoked, "ssh reboot")
                     /\ returncodes' = Append(returncodes, outcome)
    /\ wpc' = "end_step"
    /\ UNCHANGED <<workflow, step_index, wf_results, check_index, attempt, check_passed,
                   last_error, validation_results, sleeps, escaped>>
    /\ UNCHANGED <<sched_vars, reg_vars, run_vars, ext_vars>>

\* execute_workflow: results.append(step_result); break when the step FAILED
EndStep ==
    /\ wpc = "end_step"
    /\ wf_results' = Append(wf_results, step)
    /\ IF Halts(step)
       THEN wpc' = "returned" /\ UNCHANGED step_index
       ELSE wpc' = "loop" /\ step_index' = step_index + 1
    /\ UNCHANGED <<workflow, step, check_index, attempt, check_passed, last_error,
                   validation_results, sleeps, invoked, returncodes, escaped>>
    /\ UNCHANGED <<sched_vars, reg_vars, run_vars, ext_vars>>

-----------------------------------------------------------------------------
(* Workflow executor: _execute_validate *)

\* _execute_validate is entered: validation_results = []
ExecuteValidate ==
    /\ wpc = "step"
    /\ step.step_type = "validate"
    /\ validation_results' = <<>>
    /\ check_index' = 1
    /\ wpc' = "checks"
    /\ UNCHANGED <<workflow, step_index, step, wf_results, attempt, check_passed,
                   last_error, sleeps, invoked, returncodes, escaped>>
    /\ UNCHANGED <<sched_vars, reg_vars, run_vars, ext_vars>>

\* the check the loop `for check_name in step.checks` is at
CurrentCheck == get_check(step.checks[check_index])

\* retry_config = step.retry or check.retry_config
RetryConfig(st, check) == IF DOMAIN st.retry # {} THEN st.retry ELSE check.retry_config

\* max_attempts = retry_config.get('max_attempts', 1) if retry_config else 1
MaxAttemptsOf(st, check) ==
    LET rc == RetryConfig(st, check)
    IN  IF DOMAIN rc # {} THEN Get(rc, "max_attempts", 1) ELSE 1

\* delay = retry_config.get('delay_seconds', 5) if retry_config else 5
DelayOf(st, check) ==
    LET rc == RetryConfig(st, check)
    IN  IF DOMAIN rc # {} THEN Get(rc, "delay_seconds", 5) ELSE 5

\* mutant of RetryContinues: a passing attempt does not end the loop
RetryContinuesAfterPass(n, max, passed) == n < max

\* while attempt < max_attempts and not check_passed
RetryContinues(n, max, passed) == n < max /\ ~passed

\* mutant of SleepDue: the delay is also slept after the final attempt
SleepDueAfterLast(n, max, passed) == ~passed

\* if not check_passed and attempt < max_attempts: time.sleep(delay)
\* (validate, also in the except branch); if attempt < max_attempts:
\* time.sleep(delay_seconds) after a non-zero exit (custom_command)
SleepDue(n, max, passed) == ~passed /\ n < max

\* mutant of AllowFailure: the step's allow_failures list is not consulted
AllowFailureFromRegistryOnly(st, check) == check.allow_failure

\* allow_failure = check_name in step.allow_failures or check.allow_failure
AllowFailure(st, check) == check.name \in st.allow_failures \/ check.allow_failure

\* mutant of CheckFails: a failed check never ends the step
CheckFailsNever(passed, allow_failure) == FALSE

\* if not check_passed and not allow_failure: ... raise RuntimeError
CheckFails(passed, allow_failure) == ~passed /\ ~allow_failure

\* top of the loop over step.checks: get_check raises (the step fails, nothing is
\* stored in step.validation_results), returns nothing (the check is skipped) or
\* returns the check (the retry loop starts)
ValidateNextCheck ==
    /\ wpc = "checks"
    /\ check_index <= Len(step.checks)
    /\ LET check == CurrentCheck IN
          CASE check.outcome = "raise" ->
                  /\ step' = Failed(step, check.error)
                  /\ wpc' = "end_step"
                  /\ UNCHANGED <<check_index, attempt, check_passed, last_error, sleeps>>
            [] check.outcome = "none" ->
                  /\ check_index' = check_index + 1
                  /\ UNCHANGED <<step, wpc, attempt, check_passed, last_error, sleeps>>
            [] OTHER ->
                  /\ attempt' = 0
                  /\ check_passed' = FALSE
                  /\ last_error' = 0
                  /\ sleeps' = 0
                  /\ wpc' = "retry"
                  /\ UNCHANGED <<step, check_index>>
    /\ UNCHANGED <<workflow, step_index, wf_results, validation_results, invoked, returncodes, escaped>>
    /\ UNCHANGED <<sched_vars, reg_vars, run_vars, ext_vars>>

\* one iteration of `while attempt < max_attempts and not check_passed`: the check
\* function returns True or False or raises; time.sleep(delay) when it did not
\* pass and attempts remain.  last_error holds the number of the attempt that
\* raised (0 for None).
ValidateAttempt ==
    /\ wpc = "retry"
    /\ RetryContinues(attempt, MaxAttemptsOf(step, CurrentCheck), check_passed)
    /\ \E outcome \in {"True", "False", "raise"} :
          /\ attempt' = attempt + 1
          /\ check_passed' = (outcome = "True")
          /\ last_error' = IF outcome = "raise" THEN attempt + 1 ELSE last_error
          /\ sleeps' = IF SleepDue(attempt + 1, MaxAttemptsOf(step, CurrentCheck),
                                    outcome = "True")
                       THEN sleeps + 1 ELSE sleeps
    /\ UNCHANGED <<workflow, wpc, step_index, step, wf_results, check_index,
                   validation_results, invoked, returncodes, escaped>>
    /\ UNCHANGED <<sched_vars, reg_vars, run_vars, ext_vars>>

\* after the retry loop: the outcome is appended; a check that did not pass and
\* is not allowed to fail raises RuntimeError (step.validation_results is stored
\* first).  idx records the position of the check in step.checks.
ValidateRecord ==
    /\ wpc = "retry"
    /\ ~RetryContinues(attempt, MaxAttemptsOf(step, CurrentCheck), check_passed)
    /\ LET check == CurrentCheck
           allow_failure == AllowFailure(step, check)
           entry == [check |-> check.name, passed |-> check_passed,
                     attempts |-> attempt, allow_failure |-> allow_failure,
                     error |-> last_error, idx |-> check_index]
           recorded == Append(validation_results, entry)
       IN  /\ validation_results' = recorded
           /\ IF CheckFails(check_passed, allow_failure)
              THEN /\ step' = Failed([step EXCEPT !.validation_results = recorded],
                                     Error("Validation check failed", check.name))
                   /\ wpc' = "end_step"
                   /\ UNCHANGED check_index
              ELSE /\ check_index' = check_index + 1
                   /\ wpc' = "checks"
                   /\ UNCHANGED step
    /\ UNCHANGED <<workflow, step_index, wf_results, attempt, check_passed, last_error,
                   sleeps, invoked, returncodes, escaped>>
    /\ UNCHANGED <<sched_vars, reg_vars, run_vars, ext_vars>>

\* the loop over step.checks is exhausted: step.validation_results and
\* step.result are stored and _execute_validate returns
ValidateFinish ==
    /\ wpc = "checks"
    /\ check_index > Len(step.checks)
    /\ step' = Completed([step EXCEPT !.validation_results = validation_results],
                         [kind |-> "validate",
                          all_passed |-> \A i \in 1..Len(validation_results) :
                                            \/ validation_results[i].passed
                                            \/ validation_results[i].allow_failure])
    /\ wpc' = "end_step"
    /\ UNCHANGED <<workflow, step_index, wf_results, check_index, attempt, check_passed,
                   last_error, validation_results, sleeps, invoked, returncodes, escaped>>
    /\ UNCHANGED <<sched_vars, reg_vars, run_vars, ext_vars>>

-----------------------------------------------------------------------------
(* Workflow executor: _execute_custom_command *)

\* max_attempts of a custom_command step
CommandAttempts(st) == IF DOMAIN st.retry # {} THEN Get(st.retry, "max_attempts", 1) ELSE 1

\* _execute_custom_command up to the retry loop: the command or the script is
\* resolved (a script must exist and be executable)
ExecuteCustomCommand ==
    /\ wpc = "step"
    /\ step.step_type = "custom_command"
    /\ IF step.command = "None" /\ step.script = "None"
       THEN /\ step' = Failed(step, Error("command or script is required", <<>>))
            /\ wpc' = "end_step"
            /\ UNCHANGED <<attempt, last_error, sleeps>>
       ELSE \E script \in {"missing", "not_executable", "usable"} :
              IF step.script # "None" /\ script # "usable"
              THEN /\ step' = Failed(step, Error("Custom command script", <<script>>))
                   /\ wpc' = "end_step"
                   /\ UNCHANGED <<attempt, last_error, sleeps>>
              ELSE /\ attempt' = 0
                   /\ last_error' = 0
                   /\ sleeps' = 0
                   /\ wpc' = "command_retry"
                   /\ UNCHANGED step
    /\ UNCHANGED <<workflow, step_index, wf_results, check_index, check_passed,
                   validation_results, invoked, returncodes, escaped>>
    /\ UNCHANGED <<sched_vars, reg_vars, run_vars, ext_vars>>

\* one iteration of `for attempt in range(1, max_attempts + 1)`: exit 0 returns,
\* a non-zero exit is remembered and slept on when attempts remain, a timeout or
\* spawn error of subprocess.run leaves the loop as an exception
CustomCommandAttempt ==
    /\ wpc = "command_retry"
    /\ attempt < CommandAttempts(step)
    /\ \E outcome \in CommandOutcomes :
          /\ attempt' = attempt + 1
          /\ invoked' = Append(invoked, "custom_command")
          /\ returncodes' = Append(returncodes, outcome)
          /\ CASE outcome = "exit0" ->
                    /\ step' = Completed(step, [kind |-> "custom", attempts |-> attempt + 1])
                    /\ wpc' = "end_step"
                    /\ UNCHANGED <<last_error, sleeps>>
               [] outcome = "nonzero" ->
                    /\ last_error' = attempt + 1
                    /\ sleeps' = IF SleepDue(attempt + 1, CommandAttempts(step), FALSE)
                                 THEN sleeps + 1 ELSE sleeps
                    /\ UNCHANGED <<step, wpc>>
               [] OTHER ->
                    /\ step' = Failed(step, Error(outcome, <<"custom_command">>))
                    /\ wpc' = "end_step"
                    /\ UNCHANGED <<last_error, sleeps>>
    /\ UNCHANGED <<workflow, step_index, wf_results, check_index, check_passed,
                   validation_results, escaped>>
    /\ UNCHANGED <<sched_vars, reg_vars, run_vars, ext_vars>>

\* all attempts failed: raise RuntimeError(last_error)
CustomCommandExhausted ==
    /\ wpc = "command_retry"
    /\ attempt >= CommandAttempts(step)
    /\ step' = Failed(step, Error("Custom command failed",
                                  IF last_error = 0 THEN <<"None">> ELSE <<"attempt">>))
    /\ wpc' = "end_step"
    /\ UNCHANGED <<workflow, step_index, wf_results, check_index, attempt, check_passed,
                   last_error, validation_results, sleeps, invoked, returncodes, escaped>>
    /\ UNCHANGED <<sched_vars, reg_vars, run_vars, ext_vars>>

-----------------------------------------------------------------------------
(* Workflow executor: specification *)

SchedIdle ==
    /\ test_plan = <<>>
    /\ max_parallel = 0
    /\ config = <<>>
    /\ limits = DEFAULT_LIMITS
    /\ stop_on_error = FALSE
    /\ pc = "idle"
    /\ mode = "none"
    /\ max_workers = 0
    /\ pending_tests = <<>>
    /\ running_futures = {}
    /\ nodes_in_use = 0
    /\ done = {}
    /\ results = <<>>
    /\ future_state = <<>>
    /\ success = <<>>
    /\ work_queue = <<>>
    /\ resource_plan_metrics = NoMetrics
    /\ cleanups = <<>>

\* execute_workflow is called: results = []
InitWF ==
    /\ workflow \in Workflows
    /\ wpc = "loop"
    /\ step_index = 1
    /\ step = <<>>
    /\ wf_results = <<>>
    /\ check_index = 0
    /\ attempt = 0
    /\ check_passed = FALSE
    /\ last_error = 0
    /\ validation_results = <<>>
    /\ sleeps = 0
    /\ invoked = <<>>
    /\ returncodes = <<>>
    /\ escaped = FALSE
    /\ SchedIdle
    /\ RegIdle
    /\ RunIdle
    /\ ExtIdle

\* mutant of Success: only the first step result is looked at
SuccessOfFirstStep(step_results) ==
    step_results = <<>> \/ step_results[1].status # "failed"

\* failed_steps = [s for s in step_results if s.status == StepStatus.FAILED];
\* result['success'] = len(failed_steps) == 0
Success(step_results) ==
    {i \in 1..Len(step_results) : step_results[i].status = "failed"} = {}

\* _run_single_test after execute_workflow: the step results decide
\* result['success']; an exception that left execute_workflow is caught and
\* result['success'] stays False
DetermineSuccess ==
    /\ wpc \in {"returned", "raised"}
    /\ ~test_result.done
    /\ test_result' = [success |-> IF wpc = "returned" THEN Success(wf_results) ELSE FALSE,
                       done |-> TRUE]
    /\ UNCHANGED wf_vars
    /\ UNCHANGED but_res

NextWF ==
    \/ BeginStep
    \/ ReturnResults
    \/ ExecuteInit
    \/ ExecuteDeploy
    \/ ExecuteStopCluster
    \/ ExecuteStartCluster
    \/ ExecuteDestroy
    \/ ExecuteRestartNode
    \/ ExecuteUnknown
    \/ ExecuteValidate
    \/ ValidateNextCheck
    \/ ValidateAttempt
    \/ ValidateRecord
    \/ ValidateFinish
    \/ ExecuteCustomCommand
    \/ CustomCommandAttempt
    \/ CustomCommandExhausted
    \/ EndStep
    \/ DetermineSuccess

SpecWF == InitWF /\ [][NextWF]_vars

-----------------------------------------------------------------------------
(* Validation registry: specification of get_check and of the check functions *)

\* values of the status field: statuses of the closed vocabulary, one written
\* with a capital, and the empty text
StatusTexts == {<<"database_ready">>, <<"stopped">>, <<"Stopped">>, <<>>}

\* persisted states: no file, a file that is not JSON, a document without a
\* status field, documents with a status field
StateFiles ==
    {[exists |-> FALSE, corrupt |-> FALSE, content |-> <<>>],
     [exists |-> TRUE, corrupt |-> TRUE, content |-> <<>>],
     [exists |-> TRUE, corrupt |-> FALSE, content |-> [provider |-> <<"aws">>]]}
    \cup {[exists |-> TRUE, corrupt |-> FALSE, content |-> [status |-> t]] :
             t \in StatusTexts}

\* cluster_status<op><value>
ClusterCheckString(op, value) == <<"cluster_status", op>> \o value

StatusValues == {<<"database_ready">>, <<"stopped">>, <<"Stopped">>}

ClusterCheckStrings ==
    {ClusterCheckString(op, v) : op \in {"==", "!="}, v \in StatusValues}
    \cup {<<"cluster_status", "==", " ", "stopped", " ">>}

\* {passed: p, failed: f} of one component; one without the passed count
CountRecords ==
    {[passed |-> p, failed |-> f] : p \in 0..MaxCount, f \in 0..MaxCount}
    \cup {[failed |-> 0]}

Components == {"ssh", "adminui", "database", "cos_ssh"}

\* health payloads: {} (no JSON on exit 0), a payload without checks, a payload
\* whose checks lack the components, payloads with counts for ssh and for the
\* other components, and the health command that cannot be started
HealthPayloads ==
    {<<>>, [status |-> "healthy"], [oserror |-> TRUE],
     [status |-> "healthy", checks |-> [services |-> [active |-> 1, failed |-> 0]]]}
    \cup {[status |-> "issues_detected",
           checks |-> [c \in Components |-> IF c = "ssh" THEN r1 ELSE r2]] :
             r1 \in CountRecords, r2 \in CountRecords}

\* health_status[<selector>].<component><op><value>
HealthCheckString(selector, component, op, value) ==
    <<"health_status", "[">> \o selector \o <<"]", ".">> \o component \o <<op>> \o value

Selectors == {<<"*">>, <<"n11">>, <<"n11", ",", "n12">>}

HealthValues == {<<"ok">>, <<"failed">>, <<"true">>, <<"false">>}

\* the tuples check strings are built from: the values of the grammar, and one
\* value outside it
HealthTuples ==
    {<<s, c, op, v>> : s \in Selectors, c \in valid_components, op \in {"==", "!="},
                       v \in HealthValues \cup {<<"maybe">>}}

HealthCheckStrings == {HealthCheckString(t[1], t[2], t[3], t[4]) : t \in HealthTuples}

RegistryStrings == ClusterCheckStrings \cup HealthCheckStrings \cup CheckStrings

InitReg ==
    /\ check_string \in RegistryStrings
    /\ state_file \in StateFiles
    /\ health_data \in HealthPayloads
    /\ rpc = "get_check"
    /\ resolved = [outcome |-> "none"]
    /\ check_result = "unset"
    /\ SchedIdle
    /\ WfIdle
    /\ RunIdle
    /\ ExtIdle

\* check = self.validation_registry.get_check(check_name)
GetCheck ==
    /\ rpc = "get_check"
    /\ resolved' = get_check(check_string)
    /\ rpc' = "resolved"
    /\ UNCHANGED <<check_string, state_file, health_data, check_result>>
    /\ UNCHANGED <<sched_vars, wf_vars, run_vars, ext_vars>>

\* check.check_function(self.context)
CallCheckFunction ==
    /\ rpc = "resolved"
    /\ resolved.outcome = "check"
    /\ check_result' = CheckFunction(resolved, state_file, health_data)
    /\ rpc' = "evaluated"
    /\ UNCHANGED <<check_string, state_file, health_data, resolved>>
    /\ UNCHANGED <<sched_vars, wf_vars, run_vars, ext_vars>>

NextReg == GetCheck \/ CallCheckFunction

SpecReg == InitReg /\ [][NextReg]_vars

-----------------------------------------------------------------------------
(* Worker threads: specification of _run_single_test, as the executor's       *)
(* threads run it side by side (one thread per test of the plan)             *)

SuiteNames == {<<"a">>, <<"b">>}

\* test cases as generate_test_plan builds them: deployment_id = suite_name
RunTestCases == {[suite |-> n, deployment_id |-> n, parameters |-> <<>>] : n \in SuiteNames}

RunPlans == SeqsUpTo(RunTestCases, MaxTests)

\* the text of a run number
RunToken(n) == CASE n = 2 -> "2" [] n = 3 -> "3" [] n = 4 -> "4" [] OTHER -> "n"

\* base_name: the suite name, or f"{suite_name}-run{run_number}" from run 2 on
BaseName(suite_name, n) ==
    IF n = 1 THEN suite_name ELSE suite_name \o <<"-run", RunToken(n)>>

\* deploy_dir = self.work_dir / deployment_id of the enhanced framework
EnhancedDir(t) == test_plan[t].deployment_id

InitRun ==
    /\ test_plan \in RunPlans
    /\ max_parallel = 0
    /\ config = <<>>
    /\ limits = DEFAULT_LIMITS
    /\ stop_on_error = FALSE
    /\ pc = "threads"
    /\ mode = "pool"
    /\ max_workers = Len(test_plan)
    /\ pending_tests = <<>>
    /\ running_futures = {}
    /\ nodes_in_use = 0
    /\ done = {}
    /\ results = <<>>
    /\ future_state = <<>>
    /\ success = <<>>
    /\ work_queue = <<>>
    /\ resource_plan_metrics = NoMetrics
    /\ cleanups = <<>>
    /\ suite_run_counts = [n \in SuiteNames |-> 0]
    /\ run_number = [t \in 1..Len(test_plan) |-> 0]
    /\ deploy_dir = [t \in 1..Len(test_plan) |-> <<>>]
    /\ ssh_validator = <<>>
    /\ validated = [t \in 1..Len(test_plan) |-> <<>>]
    /\ tpc = [t \in 1..Len(test_plan) |-> "submitted"]
    /\ WfIdle
    /\ RegIdle
    /\ ExtIdle

\* EnhancedE2ETestFramework._run_single_test: _setup_enhanced_components binds
\* self.ssh_validator (and the other components) to this test's directory
SetupEnhancedComponents ==
    \E t \in TestIds :
        /\ tpc[t] = "submitted"
        /\ ssh_validator' = EnhancedDir(t)
        /\ tpc' = [tpc EXCEPT ![t] = "set_up"]
        /\ UNCHANGED <<suite_run_counts, run_number, deploy_dir, validated>>
        /\ UNCHANGED <<sched_vars, wf_vars, reg_vars, ext_vars>>

\* run_number = self.suite_run_counts.get(suite_name, 0) + 1
ReadRunCount ==
    \E t \in TestIds :
        /\ tpc[t] = "set_up"
        /\ run_number' = [run_number EXCEPT ![t] = suite_run_counts[test_plan[t].suite] + 1]
        /\ tpc' = [tpc EXCEPT ![t] = "counted"]
        /\ UNCHANGED <<suite_run_counts, deploy_dir, ssh_validator, validated>>
        /\ UNCHANGED <<sched_vars, wf_vars, reg_vars, ext_vars>>

\* self.suite_run_counts[suite_name] = run_number
StoreRunCount ==
    \E t \in TestIds :
        /\ tpc[t] = "counted"
        /\ suite_run_counts' = [suite_run_counts EXCEPT ![test_plan[t].suite] = run_number[t]]
        /\ tpc' = [tpc EXCEPT ![t] = "stored"]
        /\ UNCHANGED <<run_number, deploy_dir, ssh_validator, validated>>
        /\ UNCHANGED <<sched_vars, wf_vars, reg_vars, ext_vars>>

\* deploy_dir = self.work_dir / base_name; deploy_dir.mkdir(exist_ok=True); the
\* workflow then runs against this directory
MakeDeployDir ==
    \E t \in TestIds :
        /\ tpc[t] = "stored"
        /\ deploy_dir' = [deploy_dir EXCEPT ![t] = BaseName(test_plan[t].suite, run_number[t])]
        /\ tpc' = [tpc EXCEPT ![t] = "running"]
        /\ UNCHANGED <<suite_run_counts, run_number, ssh_validator, validated>>
        /\ UNCHANGED <<sched_vars, wf_vars, reg_vars, ext_vars>>

\* the workflow has returned; _perform_enhanced_validation validates through
\* self.ssh_validator, and the result is returned
PerformEnhancedValidation ==
    \E t \in TestIds :
        /\ tpc[t] = "running"
        /\ validated' = [validated EXCEPT ![t] = ssh_validator]
        /\ tpc' = [tpc EXCEPT ![t] = "finished"]
        /\ UNCHANGED <<suite_run_counts, run_number, deploy_dir, ssh_validator>>
        /\ UNCHANGED <<sched_vars, wf_vars, reg_vars, ext_vars>>

NextRun ==
    \/ SetupEnhancedComponents
    \/ ReadRunCount
    \/ StoreRunCount
    \/ MakeDeployDir
    \/ PerformEnhancedValidation

SpecRun == InitRun /\ [][NextRun]_vars

-----------------------------------------------------------------------------
(* Database version resolution: _resolve_db_version                         *)
(*                                                                          *)
(* A version name and the output of `./exasol init --list-versions` are     *)
(* sequences of tokens (the text is their concatenation), so that Python's  *)
(* `version in output` is a search for a contiguous run of tokens.  A value *)
(* that may be None, a string or a list is a record [kind, v].              *)

MaxVersions == 2

None == [kind |-> "none", v |-> <<>>]

Str(tokens) == [kind |-> "str", v |-> tokens]

List(items) == [kind |-> "list", v |-> items]

\* Python truthiness of None, a string or a list
Truthy(x) == x.kind # "none" /\ x.v # <<>>

DefaultLocal == <<"default", "-", "local">>

DefaultLocalMarker == <<"(", "default", "-", "local", ")">>

\* `needle in text` for strings
HasRun(text, needle) ==
    \E i \in 0..(Len(text) - Len(needle)) :
        \A k \in 1..Len(needle) : text[i + k] = needle[k]

\* one line of the listing: "[+] exasol-2025.1.8 [x86_64] (default-local)"
LineText(line) ==
    <<line.status, " ">> \o line.name \o <<" ", "[x86_64]">>
    \o (IF line.marked THEN <<" ">> \o DefaultLocalMarker ELSE <<>>)

\* result.stdout + result.stderr
RECURSIVE OutputText(_)
OutputText(lines) ==
    IF lines = <<>> THEN <<>>
    ELSE LineText(Head(lines)) \o <<"\n">> \o OutputText(Tail(lines))

\* re.search(r'\[([\+x])\]\s+(\S+)', clean_line): group 2, or <<>> without a match
RECURSIVE NonSpaceRun(_, _)
NonSpaceRun(text, i) ==
    IF i > Len(text) \/ text[i] \in {" ", "\n"} THEN <<>>
    ELSE <<text[i]>> \o NonSpaceRun(text, i + 1)

VersionMatch(text) ==
    LET hits == {i \in 1..(Len(text) - 2) :
                    /\ text[i] \in {"[+]", "[x]"}
                    /\ text[i + 1] = " "
                    /\ text[i + 2] \notin {" ", "\n"}}
    IN  IF hits = {} THEN <<>>
        ELSE NonSpaceRun(text, (CHOOSE i \in hits : \A j \in hits : i <= j) + 2)

\* the loop over output.split('\n'): the first marked line the pattern matches
RECURSIVE FirstMarkedVersion(_)
FirstMarkedVersion(lines) ==
    IF lines = <<>> THEN <<>>
    ELSE IF /\ HasRun(LineText(Head(lines)), DefaultLocalMarker)
            /\ VersionMatch(LineText(Head(lines))) # <<>>
         THEN VersionMatch(LineText(Head(lines)))
         ELSE FirstMarkedVersion(Tail(lines))

\* _resolve_version_alias
resolve_version_alias(version, listing) ==
    IF version # DefaultLocal THEN version
    ELSE IF listing.outcome = "exit0" /\ FirstMarkedVersion(listing.lines) # <<>>
         THEN FirstMarkedVersion(listing.lines)
         ELSE version

\* _check_version_exists
check_version_exists(version, listing) ==
    IF listing.outcome = "exit0"
    THEN IF version = DefaultLocal
         THEN HasRun(OutputText(listing.lines), DefaultLocalMarker)
         ELSE HasRun(OutputText(listing.lines), version)
    ELSE FALSE

\* mutant of FallbackVersion: when no listed version exists the first one is used
FallbackVersionFirst(versions, listing) ==
    IF \E i \in 1..Len(versions) : check_version_exists(versions[i], listing)
    THEN versions[CHOOSE i \in 1..Len(versions) :
                      /\ check_version_exists(versions[i], listing)
                      /\ \A j \in 1..(i - 1) : ~check_version_exists(versions[j], listing)]
    ELSE versions[1]

\* the for loop over suite_db_version and the fallback suite_db_version[-1]
RECURSIVE FallbackVersion(_, _)
FallbackVersion(versions, listing) ==
    IF Len(versions) = 1 \/ check_version_exists(Head(versions), listing)
    THEN Head(versions)
    ELSE FallbackVersion(Tail(versions), listing)

\* _resolve_db_version
resolve_db_version(cli, suite, listing) ==
    IF Truthy(cli) THEN Str(resolve_version_alias(cli.v, listing))
    ELSE IF ~Truthy(suite) THEN None
    ELSE IF suite.kind = "str" THEN Str(resolve_version_alias(suite.v, listing))
    ELSE Str(resolve_version_alias(FallbackVersion(suite.v, listing), listing))

-----------------------------------------------------------------------------
(* Database version resolution: specification *)

VersionNames ==
    {DefaultLocal, <<"default">>, <<"exasol-2025.1">>, <<"exasol-2025.1", ".8">>}

ListedNames == {<<"exasol-2025.1", ".8">>, <<"exasol-2025.1", ".8", "-local">>}

ListingLines ==
    [status : {"[+]", "[ ]"}, name : ListedNames, marked : BOOLEAN]

Listings ==
    {[outcome |-> "exit0", lines |-> l] : l \in SeqsUpTo(ListingLines, 2)}
    \cup {[outcome |-> o, lines |-> <<>>] : o \in {"nonzero", "timeout"}}

CliVersions == {None} \cup {Str(n) : n \in VersionNames}

SuiteVersions ==
    {None, Str(<<>>)}
    \cup {Str(n) : n \in VersionNames}
    \cup {List(l) : l \in SeqsUpTo(VersionNames, MaxVersions)}

InitVer ==
    /\ db_version \in CliVersions
    /\ suite_db_version \in SuiteVersions
    /\ list_versions \in Listings
    /\ resolved_db_version = <<>>
    /\ vpc = "call"
    /\ SchedIdle
    /\ WfIdle
    /\ RegIdle
    /\ RunIdle
    /\ ResIdle
    /\ ProgIdle
    /\ MonIdle

\* resolved_db_version = self._resolve_db_version(suite_db_version)
ResolveDbVersion ==
    /\ vpc = "call"
    /\ resolved_db_version' = resolve_db_version(db_version, suite_db_version, list_versions)
    /\ vpc' = "returned"
    /\ UNCHANGED <<db_version, suite_db_version, list_versions>>
    /\ UNCHANGED but_ver

NextVer == ResolveDbVersion

SpecVer == InitVer /\ [][NextVer]_vars

-----------------------------------------------------------------------------
(* Progress tracking: the progress lock                                      *)
(*                                                                          *)
(* Every use of self._progress_lock is a `with` block.  A thread's code is   *)
(* the sequence of its lock operations: acquire, the body of the block, and  *)
(* release; what the body calls while the lock is held comes in between.    *)

\* the `with self._progress_lock` blocks of the framework, by what they do:
\*   set_total      run_tests: self._total_tests = len(test_plan)
\*   set_current    _run_single_test: current deployment and step are set
\*   set_step       log_callback: self._current_step = step_name
\*   clear_current  _run_single_test (finally): deployment and step are cleared
\*   set_completed  the schedulers: completed count, deployment and step
\*   render         _render_progress: print of the progress bar
\*   log_step       _log_deployment_step: print of the step message
\*   emit           ProgressAwareHandler.emit: the record is written to the stream
Blocks == {"set_total", "set_current", "set_step", "clear_current", "set_completed",
           "render", "log_step", "emit"}

\* mutant of CallsInside: the progress bar is rendered through the logger while
\* the lock is held
CallsInsideLogging(block) == IF block = "render" THEN <<"emit">> ELSE <<>>

\* the blocks entered by the body of a block while the lock is held: the
\* bodies assign fields, print, or write to the stream, and enter no block
CallsInside(block) == <<>>

\* the lock operations of a sequence of blocks
RECURSIVE Code(_)
Code(blocks) ==
    IF blocks = <<>> THEN <<>>
    ELSE <<[op |-> "acquire", block |-> Head(blocks)],
           [op |-> "body", block |-> Head(blocks)]>>
         \o Code(CallsInside(Head(blocks)))
         \o <<[op |-> "release", block |-> Head(blocks)]>>
         \o Code(Tail(blocks))

\* _run_single_test with one STEP message of the workflow and one log record
WorkerBlocks ==
    <<"set_current", "log_step", "set_step", "render", "emit", "log_step",
      "clear_current">>

\* run_tests and the loop over finished futures of either scheduler
RECURSIVE SchedulerBlocks(_)
SchedulerBlocks(n) ==
    IF n = 0 THEN <<"set_total", "emit", "render">>
    ELSE SchedulerBlocks(n - 1) \o <<"set_completed", "render">>

Threads == DOMAIN thread_code

\* the scheduler's thread is the last one, the others are the workers
Workers == {t \in Threads : t < Len(thread_code)}

Finished(t) == thread_code[t] = <<>>

InitProgress ==
    /\ \E n \in 1..MaxTests :
          thread_code = [t \in 1..(n + 1) |->
                            IF t <= n THEN Code(WorkerBlocks) ELSE Code(SchedulerBlocks(n))]
    /\ progress_lock = 0
    /\ completed_tests = 0
    /\ current_deployment = 0
    /\ current_step = "None"
    /\ SchedIdle
    /\ WfIdle
    /\ RegIdle
    /\ RunIdle
    /\ VerIdle
    /\ ResIdle
    /\ MonIdle

\* `with self._progress_lock:` is entered: threading.Lock is not reentrant, the
\* thread waits until the lock is free.  The scheduler reaches set_completed
\* when a future it has not yet counted is done.
Acquire(t) ==
    /\ ~Finished(t)
    /\ Head(thread_code[t]).op = "acquire"
    /\ progress_lock = 0
    /\ Head(thread_code[t]).block = "set_completed" =>
          Cardinality({w \in Workers : Finished(w)}) > completed_tests
    /\ progress_lock' = t
    /\ thread_code' = [thread_code EXCEPT ![t] = Tail(@)]
    /\ UNCHANGED <<completed_tests, current_deployment, current_step>>
    /\ UNCHANGED but_prog

\* the body of the block
Body(t) ==
    /\ ~Finished(t)
    /\ Head(thread_code[t]).op = "body"
    /\ LET block == Head(thread_code[t]).block IN
          CASE block = "set_current" ->
                  /\ current_deployment' = t
                  /\ current_step' = "initializing"
                  /\ UNCHANGED completed_tests
            [] block = "set_step" ->
                  /\ current_step' = "step"
                  /\ UNCHANGED <<completed_tests, current_deployment>>
            [] block = "clear_current" ->
                  /\ current_deployment' = 0
                  /\ current_step' = "None"
                  /\ UNCHANGED completed_tests
            [] block = "set_completed" ->
                  /\ completed_tests' = completed_tests + 1
                  /\ current_deployment' = 0
                  /\ current_step' = "None"
            [] OTHER ->
                  UNCHANGED <<completed_tests, current_deployment, current_step>>
    /\ thread_code' = [thread_code EXCEPT ![t] = Tail(@)]
    /\ UNCHANGED progress_lock
    /\ UNCHANGED but_prog

\* the `with` block is left
Release(t) ==
    /\ ~Finished(t)
    /\ Head(thread_code[t]).op = "release"
    /\ progress_lock' = 0
    /\ thread_code' = [thread_code EXCEPT ![t] = Tail(@)]
    /\ UNCHANGED <<completed_tests, current_deployment, current_step>>
    /\ UNCHANGED but_prog

AcquireLock == \E t \in Threads : Acquire(t)

RunBody == \E t \in Threads : Body(t)

ReleaseLock == \E t \in Threads : Release(t)

NextProgress == AcquireLock \/ RunBody \/ ReleaseLock

\* a thread that can take a step is eventually scheduled
SpecProgress == InitProgress /\ [][NextProgress]_vars /\ WF_vars(NextProgress)

-----------------------------------------------------------------------------
(* Timeout monitoring: EmergencyHandler.start_timeout_monitoring and         *)
(* stop_timeout_monitoring, as _run_single_test uses them.  Each test has    *)
(* its own handler, its own monitor thread and its own deadline.             *)

Monitored == DOMAIN monitor_pc

\* _initialize_emergency_handler has returned for every test: the flag is
\* False, the monitor thread is at the top of its loop, the worker runs the
\* workflow
InitMon ==
    /\ \E n \in 1..MaxTests :
          /\ timeout_triggered = [t \in 1..n |-> FALSE]
          /\ deadline_passed = [t \in 1..n |-> FALSE]
          /\ monitor_pc = [t \in 1..n |-> "loop"]
          /\ worker_pc = [t \in 1..n |-> "running"]
          /\ expired_before_stop = [t \in 1..n |-> FALSE]
          /\ emergency_summary = [t \in 1..n |-> "unset"]
    /\ SchedIdle
    /\ WfIdle
    /\ RegIdle
    /\ RunIdle
    /\ VerIdle
    /\ ResIdle
    /\ ProgIdle

\* time passes: the deadline of the test expires
DeadlineExpires ==
    \E t \in Monitored :
        /\ ~deadline_passed[t]
        /\ deadline_passed' = [deadline_passed EXCEPT ![t] = TRUE]
        /\ UNCHANGED <<timeout_triggered, monitor_pc, worker_pc, expired_before_stop,
                       emergency_summary>>
        /\ UNCHANGED but_mon

\* while datetime.now() < end_time and not self.timeout_triggered:
\* time.sleep(60).  An iteration that sleeps changes nothing; the loop is left
\* once the deadline has passed or the flag is set.
MonitorLoop ==
    \E t \in Monitored :
        /\ monitor_pc[t] = "loop"
        /\ deadline_passed[t] \/ timeout_triggered[t]
        /\ monitor_pc' = [monitor_pc EXCEPT ![t] = "check"]
        /\ UNCHANGED <<timeout_triggered, deadline_passed, worker_pc, expired_before_stop,
                       emergency_summary>>
        /\ UNCHANGED but_mon

\* if datetime.now() >= end_time and not self.timeout_triggered
MonitorCheck ==
    \E t \in Monitored :
        /\ monitor_pc[t] = "check"
        /\ monitor_pc' = [monitor_pc EXCEPT ![t] =
                             IF deadline_passed[t] /\ ~timeout_triggered[t]
                             THEN "timed_out" ELSE "done"]
        /\ UNCHANGED <<timeout_triggered, deadline_passed, worker_pc, expired_before_stop,
                       emergency_summary>>
        /\ UNCHANGED but_mon

\* self.logger.warning(...); self.timeout_triggered = True;
\* self._trigger_emergency_cleanup(deployment_id) is entered
MonitorTrigger ==
    \E t \in Monitored :
        /\ monitor_pc[t] = "timed_out"
        /\ timeout_triggered' = [timeout_triggered EXCEPT ![t] = TRUE]
        /\ monitor_pc' = [monitor_pc EXCEPT ![t] = "cleanup"]
        /\ UNCHANGED <<deadline_passed, worker_pc, expired_before_stop, emergency_summary>>
        /\ UNCHANGED but_mon

\* _trigger_emergency_cleanup returns: the callbacks and emergency_cleanup ran
MonitorCleanupDone ==
    \E t \in Monitored :
        /\ monitor_pc[t] = "cleanup"
        /\ monitor_pc' = [monitor_pc EXCEPT ![t] = "done"]
        /\ UNCHANGED <<timeout_triggered, deadline_passed, worker_pc, expired_before_stop,
                       emergency_summary>>
        /\ UNCHANGED but_mon

\* _run_single_test reaches its finally block: stop_timeout_monitoring sets
\* self.timeout_triggered = True
StopSetsFlag ==
    \E t \in Monitored :
        /\ worker_pc[t] = "running"
        /\ timeout_triggered' = [timeout_triggered EXCEPT ![t] = TRUE]
        /\ expired_before_stop' = [expired_before_stop EXCEPT ![t] = deadline_passed[t]]
        /\ worker_pc' = [worker_pc EXCEPT ![t] = "join"]
        /\ UNCHANGED <<deadline_passed, monitor_pc, emergency_summary>>
        /\ UNCHANGED but_mon

\* if self.timeout_thread.is_alive(): self.timeout_thread.join(timeout=5):
\* the join returns when the monitor thread has ended or after 5 seconds,
\* whichever comes first, and stop_timeout_monitoring returns
StopJoinReturns ==
    \E t \in Monitored :
        /\ worker_pc[t] = "join"
        /\ worker_pc' = [worker_pc EXCEPT ![t] = "stopped"]
        /\ UNCHANGED <<timeout_triggered, deadline_passed, monitor_pc, expired_before_stop,
                       emergency_summary>>
        /\ UNCHANGED but_mon

\* result['emergency_summary'] = self._get_emergency_summary(emergency_handler):
\* summary['timeout_triggered'] = emergency_handler.timeout_triggered
GetEmergencySummary ==
    \E t \in Monitored :
        /\ worker_pc[t] = "stopped"
        /\ emergency_summary' = [emergency_summary EXCEPT ![t] =
                                    IF timeout_triggered[t] THEN "True" ELSE "False"]
        /\ worker_pc' = [worker_pc EXCEPT ![t] = "reported"]
        /\ UNCHANGED <<timeout_triggered, deadline_passed, monitor_pc, expired_before_stop>>
        /\ UNCHANGED but_mon

NextMon ==
    \/ DeadlineExpires
    \/ MonitorLoop
    \/ MonitorCheck
    \/ MonitorTrigger
    \/ MonitorCleanupDone
    \/ StopSetsFlag
    \/ StopJoinReturns
    \/ GetEmergencySummary

SpecMon == InitMon /\ [][NextMon]_vars

-----------------------------------------------------------------------------
(* Scheduler: claims *)

Sizes == [t \in TestIds |-> ClusterSize(t)]

\* C1: in resource-aware scheduling the cluster sizes of the tests that were
\* started and have not yet finished never add up to more than max_nodes
C1_NodeBudgetRespected ==
    mode = "resource" => SumOver(Sizes, Active) <= max_nodes

\* C1 witness: two tests run side by side and fill the budget exactly
C1_BudgetFull ==
    /\ mode = "resource"
    /\ Cardinality({t \in TestIds : future_state[t] = "running"}) >= 2
    /\ SumOver(Sizes, Active) = max_nodes

\* C2: without stop-on-first-failure the resource-aware scheduler returns a
\* result for every test of an accepted plan (stated on the returned list)
C2_AllTestsRun ==
    (pc = "returned" /\ mode = "resource" /\ ~stop_on_error)
        => /\ ResultIds = TestIds
           /\ \A t \in TestIds : future_state[t] = "finished"

\* C5: in resource-aware scheduling only the head of the pending queue is ever
\* started, and only when it fits beside the tests not yet collected; a head
\* that does not fit starts to fit only when a finished test is collected.  In
\* the scenario (budget 4, sizes 4,3,1,1) the size-4 test runs alone and the
\* last size-1 test starts only after the size-3 or the other size-1 test ended.
C5_HeadOfLine ==
    /\ [][mode = "resource" =>
            LET fits == /\ pending_tests # <<>>
                        /\ SumOver(Sizes, running_futures)
                             + ClusterSize(Head(pending_tests)) <= max_nodes
            IN  /\ Submitted' # Submitted =>
                     (fits /\ Submitted' = Submitted \cup {Head(pending_tests)})
                /\ (pending_tests # <<>> /\ ~fits /\ pending_tests' = pending_tests
                      /\ SumOver(Sizes, running_futures')
                           + ClusterSize(Head(pending_tests)) <= max_nodes)
                     => \E t \in running_futures :
                           future_state[t] = "finished" /\ t \notin running_futures'
         ]_vars
    /\ []((test_plan = ScenarioPlan /\ config = ScenarioConfig /\ mode = "resource")
            => /\ future_state[1] # "finished" => Submitted \subseteq {1}
               /\ 4 \in Submitted => (2 \in ResultIds \/ 3 \in ResultIds))

\* C5 witness: a size-2 test runs, the size-2 head does not fit in the budget of
\* 3, the size-1 test behind it would fit and is not started
C5_SmallerTestWaits ==
    /\ test_plan = HeadOfLinePlan /\ config = HeadOfLineConfig /\ mode = "resource"
    /\ pc = "wait"
    /\ Len(pending_tests) = 2
    /\ nodes_in_use + ClusterSize(pending_tests[1]) > max_nodes
    /\ nodes_in_use + ClusterSize(pending_tests[2]) <= max_nodes
    /\ future_state[pending_tests[2]] = "unsubmitted"

\* C6: in resource-aware scheduling under stop-on-first-failure no test is
\* started once a failed result was observed, no started test is cancelled, and
\* every started test has finished and has its result in the returned list
C6_StopWithholdsOnly ==
    /\ [][(mode = "resource" /\ stop_on_error /\ FailureObserved)
            => Submitted' = Submitted]_vars
    /\ [][\A t \in TestIds :
            (future_state[t] \in {"queued", "running"}) =>
                future_state'[t] \in {"queued", "running", "finished"}]_vars
    /\ []((mode = "resource" /\ stop_on_error /\ pc = "returned")
            => \A t \in Submitted : future_state[t] = "finished" /\ t \in ResultIds)

\* C6 witness: the run returned, a test was withheld, and a test that was
\* running when the failure was observed has its result after the failure's
C6_FailureThenCompletion ==
    /\ mode = "resource" /\ stop_on_error /\ pc = "returned"
    /\ Submitted # TestIds
    /\ \E i, j \in 1..Len(results) : i < j /\ ~results[i].success

\* C7: in the worker pool under stop-on-first-failure no test begins executing
\* once a failed result was observed
C7_PoolStartsNothingAfterFailure ==
    [][(mode = "pool" /\ stop_on_error /\ FailureObserved) => Begun' = Begun]_vars

\* C8: in both modes every started test has exactly one entry in the returned
\* result list
C8_OneResultPerStartedTest ==
    pc = "returned" =>
        \A t \in Begun : Cardinality({i \in 1..Len(results) : results[i].id = t}) = 1

-----------------------------------------------------------------------------
(* Workflow executor: claims *)

\* the step is inside _execute_step
InStep == wpc \in {"step", "checks", "retry", "command_retry", "end_step"}

Statuses == [i \in 1..Len(wf_results) |-> wf_results[i].status]

\* C3: execute_workflow produces at most one StepResult per declared step, a
\* Failed StepResult is the last one and ends the workflow, and the scenario
\* (init, deploy, validate failing on a check not allowed to fail, destroy)
\* yields Completed, Completed, Failed without destroy being invoked
C3_FailedStepIsLast ==
    /\ Len(wf_results) <= Len(workflow)
    /\ \A i \in 1..Len(wf_results) :
          wf_results[i].status = "failed" =>
              i = Len(wf_results) /\ wpc = "returned" /\ step_index = i
    /\ (workflow = ScenarioWorkflow /\ Len(wf_results) >= 3
          /\ wf_results[3].status = "failed")
         => /\ Statuses = <<"completed", "completed", "failed">>
            /\ invoked = <<"init", "deploy">>

\* C3 witness: the scenario workflow returned after its validate step failed on
\* its check
C3_ScenarioHalted ==
    /\ workflow = ScenarioWorkflow
    /\ wpc = "returned"
    /\ Len(wf_results) = 3
    /\ wf_results[3].error = Error("Validation check failed", CS_ready)

\* C4: the i-th StepResult belongs to the i-th declared step, one step is
\* executed at a time, and a step is executed only after every step declared
\* before it has ended Completed
C4_StepsInOrder ==
    /\ \A i \in 1..Len(wf_results) :
          /\ "step" \in DOMAIN workflow[i]
          /\ wf_results[i].step_type = workflow[i].step
          /\ wf_results[i].checks = Get(workflow[i], "checks", <<>>)
          /\ wf_results[i].status \in {"completed", "failed"}
    /\ InStep =>
          /\ step_index = Len(wf_results) + 1
          /\ step.step_type = workflow[step_index].step
          /\ \A j \in 1..Len(wf_results) : wf_results[j].status = "completed"
          /\ wpc # "end_step" => step.status = "running"

\* C4 witness: the second step of a workflow of two different steps is running
\* after the first one ended Completed
C4_SecondStepRuns ==
    /\ Len(workflow) = 2
    /\ wpc = "step"
    /\ step_index = 2
    /\ workflow[1] # workflow[2]
    /\ Statuses = <<"completed">>

ValidateResults ==
    {wf_results[i] : i \in {j \in 1..Len(wf_results) : wf_results[j].step_type = "validate"}}

\* the recorded outcome of the i-th listed check of validate step r says passed
PassedAt(r, i) ==
    \E k \in 1..Len(r.validation_results) :
        r.validation_results[k].idx = i /\ r.validation_results[k].passed

\* an outcome was recorded for the i-th listed check of validate step r
RecordedAt(r, i) ==
    \E k \in 1..Len(r.validation_results) : r.validation_results[k].idx = i

\* C9 (as stated): a validate step ends Completed iff every listed check passed
\* within its retry budget or is allowed to fail, and ends Failed otherwise
C9_ValidateLaw ==
    \A r \in ValidateResults :
        /\ r.status \in {"completed", "failed"}
        /\ r.status = "completed" <=>
              \A i \in 1..Len(r.checks) :
                  PassedAt(r, i) \/ r.checks[i] \in r.allow_failures

\* C9 (amended): a validate step ends Completed iff for every listed check
\* get_check returns nothing (the check is skipped) or returns a check that
\* passed within its retry budget or is allowed to fail; it ends Failed
\* otherwise, in particular when get_check raises for a listed check
C9_ValidateLawResolved ==
    \A r \in ValidateResults :
        /\ r.status \in {"completed", "failed"}
        /\ r.status = "completed" <=>
              \A i \in 1..Len(r.checks) :
                  \/ get_check(r.checks[i]).outcome = "none"
                  \/ /\ get_check(r.checks[i]).outcome = "check"
                     /\ RecordedAt(r, i)
                     /\ PassedAt(r, i) \/ r.checks[i] \in r.allow_failures

\* C9 witness: a validate step ended Completed with one check that failed and is
\* allowed to fail and one check that was skipped
C9_AllowedFailureAndSkip ==
    \E r \in ValidateResults :
        /\ r.status = "completed"
        /\ r.checks = <<CS_ready, CS_bare>>
        /\ Len(r.validation_results) = 1
        /\ ~r.validation_results[1].passed
        /\ r.validation_results[1].allow_failure

\* the cluster_status grammar: cluster_status<op><value>
MatchesClusterGrammar(name) ==
    Len(name) >= 3 /\ name[1] = "cluster_status" /\ name[2] \in {"==", "!="}

\* the health_status grammar: health_status[<selector>].<component><op><value>
MatchesHealthGrammar(name) ==
    LET m == HealthMatch(name) IN
        /\ m # <<0, 0>>
        /\ SubSeq(name, m[1] + 2, m[2] - 1) \in valid_components
        /\ SubSeq(name, m[2] + 1, Len(name)) \in
               {<<"ok">>, <<"failed">>, <<"true">>, <<"false">>}

Malformed(name) == ~MatchesClusterGrammar(name) /\ ~MatchesHealthGrammar(name)

\* C10: a check string that matches neither grammar is skipped: no outcome is
\* recorded for it and the validate step never ends Failed on it
C10_MalformedSkipped ==
    \A r \in ValidateResults :
        /\ \A k \in 1..Len(r.validation_results) :
              ~Malformed(r.validation_results[k].check)
        /\ r.status = "failed" => ~Malformed(r.error.detail)

-----------------------------------------------------------------------------
(* Workflow executor: retry policy *)

\* the outcomes recorded so far, each with the validate step it belongs to: those
\* stored in the steps already returned and those of the step being executed
RecordedOutcomes ==
    UNION {{<<r, r.validation_results[k]>> : k \in 1..Len(r.validation_results)} :
              r \in ValidateResults}
    \cup
    (IF wpc \in {"checks", "retry"}
     THEN {<<step, validation_results[k]>> : k \in 1..Len(validation_results)}
     ELSE {})

\* max_attempts of the retry policy the outcome p was evaluated under
BudgetOf(p) == MaxAttemptsOf(p[1], get_check(p[2].check))

\* the retry loop of _execute_validate makes one more attempt
AttemptMade == wpc = "retry" /\ attempt' # attempt

\* the retry loop of _execute_validate records the outcome of a check
OutcomeRecorded == wpc = "retry" /\ validation_results' # validation_results

\* an attempt is made only while no attempt has passed, and the recorded
\* attempt count is the number of attempts made
StopsAtFirstPass ==
    /\ AttemptMade => ~check_passed /\ attempt' = attempt + 1
    /\ OutcomeRecorded =>
          LET e == validation_results'[Len(validation_results')]
          IN  e.attempts = attempt /\ e.passed = check_passed

\* C11 (as stated): for every evaluated check and retry policy the recorded
\* attempt count is between 1 and max_attempts, it is max_attempts when no
\* attempt passed, and evaluation stops at the first attempt that passes
C11_AttemptsWithinBudget ==
    /\ [](\A p \in RecordedOutcomes :
            /\ 1 <= p[2].attempts
            /\ p[2].attempts <= BudgetOf(p)
            /\ ~p[2].passed => p[2].attempts = BudgetOf(p))
    /\ [][StopsAtFirstPass]_vars

\* C11 (amended): under a retry policy with max_attempts >= 1 (1 when the policy
\* is absent) the recorded attempt count is between 1 and max_attempts, it is
\* max_attempts when no attempt passed, and evaluation stops at the first
\* attempt that passes; under max_attempts <= 0 the check function is never
\* called and the outcome is recorded with attempts = 0 and passed = false
C11_AttemptsWithinPositiveBudget ==
    /\ [](\A p \in RecordedOutcomes :
            IF BudgetOf(p) >= 1
            THEN /\ 1 <= p[2].attempts
                 /\ p[2].attempts <= BudgetOf(p)
                 /\ ~p[2].passed => p[2].attempts = BudgetOf(p)
            ELSE p[2].attempts = 0 /\ ~p[2].passed)
    /\ [][StopsAtFirstPass]_vars

\* C11 witness: a check passed on its second attempt under max_attempts = 3
C11_PassedBeforeBudgetSpent ==
    \E p \in RecordedOutcomes :
        p[2].passed /\ p[2].attempts = 2 /\ BudgetOf(p) = 3

\* number of delays slept once n attempts were made and the loop either goes on
\* to another attempt or is over
DelaysAfter(n, goes_on) == IF goes_on THEN n ELSE IF n = 0 THEN 0 ELSE n - 1

\* the retry loop of a validate check or of a custom_command sleeps
Slept == wpc \in {"retry", "command_retry"} /\ sleeps' # sleeps

\* the delays slept so far in the retry loop that is running or just ended
DelaysCounted ==
    /\ wpc = "retry" =>
          (sleeps = DelaysAfter(attempt,
                                /\ attempt < MaxAttemptsOf(step, CurrentCheck)
                                /\ ~check_passed))
    /\ (wpc = "retry" /\ step.retry = ScenarioRetry /\ attempt = 3 /\ check_passed) =>
          (sleeps * DelayOf(step, CurrentCheck) >= 2)
    /\ wpc = "command_retry" =>
          (sleeps = DelaysAfter(attempt, attempt < CommandAttempts(step)))
    /\ (wpc = "end_step" /\ step.result.kind = "custom") =>
          (step.result.attempts = attempt /\ sleeps = attempt - 1)
    /\ (wpc = "end_step" /\ step.step_type = "custom_command"
          /\ step.error.msg \in {"timeout", "oserror"}) =>
          (sleeps = attempt - 1)

\* a delay is slept only after an attempt that did not pass and was not the last
SleptBetweenAttempts ==
    Slept =>
        /\ sleeps' = sleeps + 1
        /\ attempt' = attempt + 1
        /\ wpc = "retry" => ~check_passed'
        /\ attempt' < (IF wpc = "retry" THEN MaxAttemptsOf(step, CurrentCheck)
                       ELSE CommandAttempts(step))

\* C12: the fixed delay is slept exactly once between consecutive attempts and
\* never after the final attempt or after a passing attempt, so k attempts incur
\* k-1 delays; with max_attempts=3 and delay 1 s a check passing on attempt 3 is
\* recorded with attempts=3, passed=true after at least 2 s of delay
C12_DelaysBetweenAttempts == []DelaysCounted /\ [][SleptBetweenAttempts]_vars

\* C12 witness: under max_attempts=3 and delay 1 s a check failed twice and
\* passed on its third attempt
C12_ThirdAttemptPassed ==
    /\ wpc = "retry"
    /\ step.retry = ScenarioRetry
    /\ attempt = 3
    /\ check_passed
    /\ sleeps = 2

\* a custom_command step has left its retry loop (the command was resolved)
CommandRan ==
    /\ wpc = "end_step"
    /\ step.step_type = "custom_command"
    /\ step.error.msg \notin {"command or script is required", "Custom command script"}

\* the outcomes of the attempts of the custom_command step that just ended
AttemptOutcomes == SubSeq(returncodes, Len(returncodes) - attempt + 1, Len(returncodes))

\* C13: a custom_command step with max_attempts = N runs the command at most N
\* times, ends Completed at the first attempt that exits 0 and records its
\* number, and ends Failed only after N unsuccessful attempts (an attempt that
\* exits non-zero or times out is retried while attempts remain)
C13_CustomCommandRetries ==
    /\ wpc = "command_retry" => attempt <= CommandAttempts(step)
    /\ CommandRan =>
          /\ attempt <= CommandAttempts(step)
          /\ step.status = "completed" =>
                /\ step.result.attempts = attempt
                /\ AttemptOutcomes[attempt] = "exit0"
                /\ \A k \in 1..(attempt - 1) : AttemptOutcomes[k] # "exit0"
          /\ step.status = "failed" => attempt = CommandAttempts(step)

-----------------------------------------------------------------------------
(* Workflow executor: external processes *)

\* the step kinds whose handler runs one exasol subcommand
ExasolSteps == {"init", "deploy", "stop_cluster", "start_cluster", "destroy"}

\* the step that is about to be appended to the results ran an external
\* process: an exasol subcommand, the ssh reboot of restart_node (reached once
\* the node was found in the inventory) or at least one attempt of a custom
\* command
ProcessEnded ==
    /\ wpc = "end_step"
    /\ \/ step.step_type \in ExasolSteps
       \/ /\ step.step_type = "restart_node"
          /\ step.result.kind = "ssh" \/ step.error.msg \in {"timeout", "oserror"}
       \/ CommandRan /\ attempt >= 1

\* how the last external process of the step ended
LastCode == returncodes[Len(returncodes)]

StepCodes ==
    IF step.step_type = "custom_command" THEN Range(AttemptOutcomes) ELSE {LastCode}

-----------------------------------------------------------------------------
(* Scheduler: quota, teardown and choice of the scheduler *)

\* cluster size and data volume of each planned test under the current limits
PlanSizes ==
    [i \in 1..Len(test_plan) |->
        Get(Get(test_plan[i], "parameters", <<>>), "cluster_size",
            limits.default_cluster_size)]

PlanVolumes ==
    [i \in 1..Len(test_plan) |->
        PlanSizes[i]
        * Get(Get(test_plan[i], "parameters", <<>>), "data_volumes_per_node",
              limits.default_data_volumes_per_node)
        * Get(Get(test_plan[i], "parameters", <<>>), "data_volume_size",
              limits.default_data_volume_size)]

\* the parallelism evaluate_plan takes as requested
Requested(parallel) == IF parallel # 0 THEN parallel ELSE Len(test_plan)

\* the pairs <<actual, limit>> by which the plan breaches the limit with this label
BreachValues(label, parallel) ==
    CASE label = "cluster_size" ->
            {<<PlanSizes[i], limits.max_cluster_size_per_test>> :
                i \in {j \in 1..Len(test_plan) :
                          PlanSizes[j] > limits.max_cluster_size_per_test}}
      [] label = "total instances" ->
            IF SumOver(PlanSizes, DOMAIN PlanSizes) > limits.max_total_instances
            THEN {<<SumOver(PlanSizes, DOMAIN PlanSizes), limits.max_total_instances>>}
            ELSE {}
      [] label = "total data volume (GB)" ->
            IF SumOver(PlanVolumes, DOMAIN PlanVolumes) > limits.max_total_data_volume_gb
            THEN {<<SumOver(PlanVolumes, DOMAIN PlanVolumes),
                    limits.max_total_data_volume_gb>>}
            ELSE {}
      [] label = "max_parallel" ->
            IF Requested(parallel) > limits.max_parallel_executions
            THEN {<<Requested(parallel), limits.max_parallel_executions>>}
            ELSE {}
      [] OTHER -> {}

\* the limits the plan breaches
Breaches(parallel) ==
    {label \in {"cluster_size", "total instances", "total data volume (GB)",
                "max_parallel"} : BreachValues(label, parallel) # {}}

\* C16: when the pre-flight quota check finds a limit breached, run_tests raises
\* before any test is started: nothing is submitted, no test begins, no result
\* and no teardown is produced
C16_BreachStartsNothing ==
    (test_plan # <<>> /\ Breaches(effective_parallel) # {}) =>
        /\ pc \in {"start", "raised"}
        /\ mode = "none"
        /\ Submitted = {}
        /\ Begun = {}
        /\ results = <<>>
        /\ cleanups = <<>>

\* C16 witness: run_tests raised on a plan of two tests whose cluster sizes add
\* up to more than max_total_instances
C16_RunRejected ==
    /\ pc = "raised"
    /\ Len(test_plan) = 2
    /\ "total instances" \in Breaches(effective_parallel)
    /\ resource_plan_metrics.raised

\* the totals evaluate_plan returns for an accepted plan
PlanTotals ==
    [total_tests |-> Len(test_plan),
     total_instances |-> SumOver(PlanSizes, DOMAIN PlanSizes),
     max_cluster_size |->
         IF test_plan = <<>> THEN 0
         ELSE CHOOSE x \in Range(PlanSizes) : \A y \in Range(PlanSizes) : y <= x,
     total_data_volume_gb |-> SumOver(PlanVolumes, DOMAIN PlanVolumes),
     max_parallel_requested |-> Requested(max_parallel)]

\* C17: evaluate_plan rejects a plan iff a test exceeds the per-test cap, or the
\* summed cluster sizes exceed max_total_instances, or the summed data volume
\* exceeds its cap, or the requested parallelism exceeds
\* max_parallel_executions; the error names a breached metric with its actual
\* value and its limit (one test of size 3 under max_total_instances=2: 'total
\* instances', 3 and 2); otherwise the computed totals are returned
C17_EvaluatePlanLaw ==
    pc = "evaluated" =>
        /\ resource_plan_metrics.raised <=> Breaches(max_parallel) # {}
        /\ resource_plan_metrics.raised =>
              /\ resource_plan_metrics.label \in Breaches(max_parallel)
              /\ <<resource_plan_metrics.actual, resource_plan_metrics.limit>>
                    \in BreachValues(resource_plan_metrics.label, max_parallel)
        /\ ~resource_plan_metrics.raised => resource_plan_metrics.metrics = PlanTotals
        /\ (test_plan = QuotaScenarioPlan /\ limits = MergeLimits(QuotaScenarioLimits)) =>
              /\ resource_plan_metrics.raised
              /\ resource_plan_metrics.label = "total instances"
              /\ resource_plan_metrics.actual = 3
              /\ resource_plan_metrics.limit = 2

\* C17 witness: the scenario plan was evaluated under max_total_instances = 2
C17_ScenarioRejected ==
    /\ pc = "evaluated"
    /\ test_plan = QuotaScenarioPlan
    /\ limits = MergeLimits(QuotaScenarioLimits)
    /\ resource_plan_metrics.label = "total instances"

\* C18: in both modes the scheduler handles the failure of every test that ran
\* and finished unsuccessfully exactly once (one teardown of its deployment
\* directory when that exists), and the recorded results are those of the tests
C18_FailedTestsTornDown ==
    pc = "returned" =>
        /\ \A t \in TestIds :
              (future_state[t] = "finished" /\ ~success[t]) =>
                  Cardinality({i \in 1..Len(cleanups) : cleanups[i].id = t}) = 1
        /\ \A i \in 1..Len(results) : results[i].success = success[results[i].id]

-----------------------------------------------------------------------------
(* Workflow executor: destroy *)

\* number of times the destroy command was run
DestroyInvocations == Cardinality({i \in 1..Len(invoked) : invoked[i] = "destroy"})

\* number of declared destroy steps whose handler has run
DestroyStepsExecuted ==
    Cardinality({i \in 1..Len(wf_results) : wf_results[i].step_type = "destroy"})
    + (IF wpc = "end_step" /\ step.step_type = "destroy" THEN 1 ELSE 0)

\* an external command is started
CommandStarted == Len(invoked') > Len(invoked)

\* C19: the executor runs the destroy command only as the handler of a declared
\* destroy step that is reached (every step before it ended Completed); it
\* runs no command of its own after a failed step or at the end of a workflow
C19_DestroyOnlyWhenDeclared ==
    /\ [](/\ DestroyInvocations = DestroyStepsExecuted
          /\ \A i \in 1..Len(wf_results) :
                wf_results[i].step_type = "destroy" =>
                    /\ workflow[i].step = "destroy"
                    /\ \A j \in 1..(i - 1) : wf_results[j].status = "completed")
    /\ [][CommandStarted =>
             /\ wpc \in {"step", "command_retry"}
             /\ step.status = "running"
             /\ workflow[step_index].step = step.step_type
             /\ invoked'[Len(invoked')] = "destroy" => step.step_type = "destroy"]_vars

\* C19 witness: a workflow that declares destroy as its second step returned
\* after its first step failed, and destroy was not run
C19_FailedBeforeDestroy ==
    /\ wpc = "returned"
    /\ Len(workflow) = 2
    /\ workflow[2] = [step |-> "destroy"]
    /\ Len(wf_results) = 1
    /\ wf_results[1].status = "failed"
    /\ DestroyInvocations = 0

-----------------------------------------------------------------------------
(* Validation registry: claims *)

\* the persisted status field equals the text x; a missing file and a document
\* without the field have no status
StatusFieldIs(x) ==
    /\ state_file.exists
    /\ "status" \in DOMAIN state_file.content
    /\ state_file.content.status = x

HoldsCounts(component) ==
    IF "checks" \in DOMAIN health_data
    THEN component[1] \in DOMAIN health_data.checks
    ELSE FALSE

\* the count the health payload holds for a component, 0 when it holds none
CountOf(component, key) ==
    IF HoldsCounts(component)
    THEN Get(health_data.checks[component[1]], key, 0)
    ELSE 0

\* the health command gave a payload
PayloadRead == "oserror" \notin DOMAIN health_data

\* C23: for every component and health payload, health_status[*].<c>==ok and
\* health_status[*].<c>!=failed evaluate to true exactly when the component's
\* failed count is 0 and its passed count is greater than 0
C23_HealthOkLaw ==
    \A c \in valid_components, f \in {<<"==", <<"ok">>>>, <<"!=", <<"failed">>>>} :
        (/\ rpc = "evaluated"
         /\ check_string = HealthCheckString(<<"*">>, c, f[1], f[2])
         /\ PayloadRead) =>
            check_result = Bool(CountOf(c, "failed") = 0 /\ CountOf(c, "passed") > 0)

\* C23 witness: health_status[*].adminui!=failed was evaluated to true
C23_NotFailedHolds ==
    /\ rpc = "evaluated"
    /\ check_string = HealthCheckString(<<"*">>, <<"adminui">>, "!=", <<"failed">>)
    /\ check_result = "True"

\* C24 as stated: health_status[*].<c>==failed and health_status[*].<c>!=ok
\* evaluate to true exactly when the component's failed count is greater than
\* 0, also when its passed and failed counts are both 0
C24_HealthFailedLaw ==
    \A c \in valid_components, f \in {<<"==", <<"failed">>>>, <<"!=", <<"ok">>>>} :
        (/\ rpc = "evaluated"
         /\ check_string = HealthCheckString(<<"*">>, c, f[1], f[2])
         /\ PayloadRead) =>
            check_result = Bool(CountOf(c, "failed") > 0)

\* C24 amended: health_status[*].<c>==failed evaluates to true exactly when the
\* failed count is greater than 0; health_status[*].<c>!=ok evaluates to true
\* exactly when the payload holds counts for the component and the failed
\* count is greater than 0 or the passed count is 0
C24_HealthFailedLawNegatedOk ==
    \A c \in valid_components :
        /\ (/\ rpc = "evaluated"
            /\ check_string = HealthCheckString(<<"*">>, c, "==", <<"failed">>)
            /\ PayloadRead) =>
               check_result = Bool(CountOf(c, "failed") > 0)
        /\ (/\ rpc = "evaluated"
            /\ check_string = HealthCheckString(<<"*">>, c, "!=", <<"ok">>)
            /\ PayloadRead) =>
               check_result = Bool(/\ HoldsCounts(c)
                                   /\ \/ CountOf(c, "failed") > 0
                                      \/ CountOf(c, "passed") = 0)

\* C24 witness: health_status[*].ssh!=ok was evaluated to true on a payload
\* whose ssh counts are both 0
C24_NothingPassedIsNotOk ==
    /\ rpc = "evaluated"
    /\ check_string = HealthCheckString(<<"*">>, <<"ssh">>, "!=", <<"ok">>)
    /\ "checks" \in DOMAIN health_data
    /\ "ssh" \in DOMAIN health_data.checks
    /\ health_data.checks.ssh = [passed |-> 0, failed |-> 0]
    /\ check_result = "True"

C26_HealthCheckRoundTrip ==
    \A t \in HealthTuples :
        (/\ t[4] \in HealthValues
         /\ rpc # "get_check"
         /\ check_string = HealthCheckString(t[1], t[2], t[3], t[4])) =>
            /\ resolved.outcome = "check"
            /\ <<resolved.node_selector, resolved.component, resolved.operator,
                 resolved.expected>> = t

\* C26 witness: the scenario's string health_status[*].adminui==ok was parsed
C26_ScenarioParsed ==
    /\ rpc = "resolved"
    /\ check_string = HealthCheckString(<<"*">>, <<"adminui">>, "==", <<"ok">>)
    /\ resolved.outcome = "check"

\* C30: a health_status check whose value is none of ok, failed, true, false
\* is a parse failure and is never evaluated as an assertion
C30_BadValueNotEvaluated ==
    \A t \in HealthTuples :
        (/\ t[4] \notin HealthValues
         /\ check_string = HealthCheckString(t[1], t[2], t[3], t[4])) =>
            check_result = "unset"

-----------------------------------------------------------------------------
(* Scheduler: admission order and the node counter *)

\* test t is submitted by this step
AdmittedNow(t) == future_state[t] = "unsubmitted" /\ future_state'[t] # "unsubmitted"

\* a worker thread begins to run test t in this step
BegunNow(t) == future_state[t] = "queued" /\ future_state'[t] = "running"

\* t comes before u in the descending sort: larger, or as large and earlier in
\* the plan
SortsBefore(t, u) ==
    \/ ClusterSize(t) > ClusterSize(u)
    \/ ClusterSize(t) = ClusterSize(u) /\ t < u

\* C21: in resource-aware scheduling a test is started only before tests that
\* are no larger, and before those of its own size only when it comes earlier
\* in the plan: every test still waiting when it is started sorts after it
C21_StartedLargestFirst ==
    [][mode = "resource" =>
         \A t \in TestIds :
             /\ AdmittedNow(t) =>
                   \A u \in TestIds \ {t} :
                       future_state'[u] = "unsubmitted" => SortsBefore(t, u)
             /\ BegunNow(t) =>
                   \A u \in TestIds \ {t} :
                       future_state'[u] \in {"unsubmitted", "queued"} => SortsBefore(t, u)]_vars

\* C21 witness: a test placed later in the plan was started while a smaller
\* test placed before it still waits
C21_LargerStartedFirst ==
    /\ mode = "resource"
    /\ \E t, u \in TestIds :
          /\ u < t
          /\ ClusterSize(t) > ClusterSize(u)
          /\ future_state[t] # "unsubmitted"
          /\ future_state[u] = "unsubmitted"

\* the counter equals the sizes reserved for the admitted tests whose
\* completion was not yet processed, and is 0 when the scheduler has returned
CounterIsReserved ==
    mode = "resource" =>
        /\ nodes_in_use = SumOver(Sizes, running_futures)
        /\ pc = "returned" => nodes_in_use = 0

\* the counter changes only in a step of the scheduler's own thread, by the
\* size of the one test that is admitted or whose completion is processed; a
\* step of a worker thread leaves it alone
CounterUpdatedByScheduler ==
    /\ nodes_in_use' # nodes_in_use =>
          /\ pc \in {"admit", "collect"}
          /\ \/ \E t \in TestIds \ running_futures :
                   /\ running_futures' = running_futures \cup {t}
                   /\ nodes_in_use' = nodes_in_use + ClusterSize(t)
             \/ \E t \in running_futures :
                   /\ running_futures' = running_futures \ {t}
                   /\ nodes_in_use' = nodes_in_use - ClusterSize(t)
    /\ (\E t \in TestIds :
           /\ future_state[t] \in {"queued", "running"}
           /\ future_state'[t] \in {"running", "finished"}
           /\ future_state'[t] # future_state[t]) => nodes_in_use' = nodes_in_use

\* C28: the nodes-in-use counter is updated by one thread at a time, so no
\* update is lost: it always equals the sum of the sizes reserved for admitted
\* tests whose completion was not yet processed, each completion releases what
\* was reserved, and the counter is 0 when the scheduler returns
C28_CounterTracksReservations ==
    []CounterIsReserved /\ [][CounterUpdatedByScheduler]_vars

\* C28 witness: the completion of one test was processed while another
\* admitted test still holds its nodes
C28_OneReleasedOneHeld ==
    /\ mode = "resource"
    /\ Len(results) >= 1
    /\ running_futures # {}
    /\ nodes_in_use > 0

-----------------------------------------------------------------------------
(* Worker threads: claims *)

\* the plan names every suite once
SuitesDistinct ==
    \A a, b \in TestIds : a # b => test_plan[a].suite # test_plan[b].suite

\* C27: no state of a running test is read or written by the thread of another
\* test: two tests that run side by side never use the same deployment
\* directory, and the validation of a test reads the test's own directory
C27_TestStateNotShared ==
    SuitesDistinct =>
        /\ \A a, b \in TestIds :
              (a # b /\ tpc[a] = "running" /\ tpc[b] = "running") =>
                  deploy_dir[a] # deploy_dir[b]
        /\ \A t \in TestIds : tpc[t] = "finished" => validated[t] = EnhancedDir(t)

-----------------------------------------------------------------------------
(* Workflow executor: the error of an exhausted retry *)

\* C29: when a validate check or a custom_command has used up max_attempts
\* without success, the error its failure carries is the error of the last
\* attempt, never the error of an earlier attempt (the errors are numbered
\* by the attempt that met them)
C29_LastErrorCarried ==
    /\ \A p \in RecordedOutcomes :
          (~p[2].passed /\ ~p[2].allow_failure /\ p[2].attempts >= 1 /\ p[2].error # 0) =>
              p[2].error = p[2].attempts
    /\ (wpc = "command_retry" /\ attempt >= 1 /\ attempt >= CommandAttempts(step)) =>
          last_error = attempt
-----------------------------------------------------------------------------
(* Database version resolution: claims *)

VersionExists(version) == check_version_exists(version, list_versions)

Alias(version) == Str(resolve_version_alias(version, list_versions))

\* C31: _resolve_db_version gives the alias-resolved command-line version when
\* one was given; otherwise None when the suite declares no version; otherwise
\* the alias resolution of the suite's single string; and for a list the alias
\* resolution of the first listed version that exists, or of the last listed
\* version when none exists
C31_VersionPriority ==
    vpc = "returned" =>
        LET got == resolved_db_version
            listed == suite_db_version.v
        IN  IF Truthy(db_version) THEN got = Alias(db_version.v)
            ELSE IF ~Truthy(suite_db_version) THEN got = None
            ELSE IF suite_db_version.kind = "str" THEN got = Alias(suite_db_version.v)
            ELSE \/ \E i \in 1..Len(listed) :
                       /\ VersionExists(listed[i])
                       /\ \A j \in 1..(i - 1) : ~VersionExists(listed[j])
                       /\ got = Alias(listed[i])
                 \/ /\ \A i \in 1..Len(listed) : ~VersionExists(listed[i])
                    /\ got = Alias(listed[Len(listed)])

\* C31 witness: no listed version exists and the last one, which differs from
\* the first, is returned
C31_LastListedUsed ==
    /\ vpc = "returned"
    /\ ~Truthy(db_version)
    /\ suite_db_version.kind = "list"
    /\ Len(suite_db_version.v) = 2
    /\ suite_db_version.v[1] # suite_db_version.v[2]
    /\ \A i \in 1..2 : ~VersionExists(suite_db_version.v[i])
    /\ resolved_db_version = Str(suite_db_version.v[2])

-----------------------------------------------------------------------------
(* Workflow executor: order of the checks of a validate step *)

\* the outcome lists the executor holds: the local list of the running
\* _execute_validate and the lists stored in the results
OutcomeLists ==
    {validation_results} \cup {r.validation_results : r \in ValidateResults}

\* a recorded outcome that failed without being allowed to fail
HardFailure(e) == ~e.passed /\ ~e.allow_failure

\* outcomes are listed in the order of step.checks and a hard failure is the
\* last outcome of its list
OutcomesOrdered ==
    \A l \in OutcomeLists :
        /\ \A i, j \in 1..Len(l) : i < j => l[i].idx < l[j].idx
        /\ \A i \in 1..Len(l) : HardFailure(l[i]) => i = Len(l)

\* a check is attempted only after every outcome recorded so far, and never
\* once a hard failure has been recorded
EvaluatedInOrder ==
    AttemptMade =>
        \A k \in 1..Len(validation_results) :
            /\ validation_results[k].idx < check_index
            /\ ~HardFailure(validation_results[k])

\* C34: within a validate step checks are evaluated in listed order and
\* evaluation stops at the first check that fails without being allowed to
\* fail: the recorded outcomes follow the listed order, a failed outcome that is
\* not allowed to fail is the last one recorded, and no later check is evaluated
C34_ChecksInOrder == []OutcomesOrdered /\ [][EvaluatedInOrder]_vars

\* C34 witness: a validate step of two checks ended Failed on its first check
\* and holds that single outcome
C34_StoppedAtFirstCheck ==
    /\ wpc = "end_step"
    /\ step.step_type = "validate"
    /\ step.status = "failed"
    /\ Len(step.checks) = 2
    /\ Len(step.validation_results) = 1
    /\ step.validation_results[1].idx = 1
    /\ HardFailure(step.validation_results[1])

\* C35: a recorded outcome with passed = true carries no error: the error of an
\* earlier attempt does not remain once a later attempt passes
C35_PassedHasNoError ==
    \A p \in RecordedOutcomes : p[2].passed => p[2].error = 0

-----------------------------------------------------------------------------
(* Worker threads: the success of a test *)

\* the workflow produced one Completed StepResult for every declared step
EveryStepCompleted ==
    /\ wpc = "returned"
    /\ Len(wf_results) = Len(workflow)
    /\ \A i \in 1..Len(workflow) :
          /\ wf_results[i].step_type = workflow[i].step
          /\ wf_results[i].status = "completed"

\* C33: a test result is reported successful iff the workflow produced one
\* Completed StepResult for every declared step; a test with a declared step
\* that was not executed is never reported successful
C33_SuccessIffAllCompleted ==
    test_result.done => (test_result.success <=> EveryStepCompleted)

\* C33 witness: the result of a test whose workflow stopped before its last
\* declared step was determined, and it is not successful
C33_UnexecutedStepFails ==
    /\ test_result.done
    /\ wpc = "returned"
    /\ Len(wf_results) < Len(workflow)
    /\ ~test_result.success

-----------------------------------------------------------------------------
(* Validation registry: the == and != forms of a health check *)

\* what health_status[*].<component><op><value> evaluates to on the payload
HoldsOn(component, op, value) ==
    CheckFunction(get_check(HealthCheckString(<<"*">>, component, op, value)),
                  state_file, health_data) = "True"

\* the == form of the check was evaluated on a payload the health command gave
EqualFormEvaluated(component, value) ==
    /\ rpc = "evaluated"
    /\ check_string = HealthCheckString(<<"*">>, component, "==", value)
    /\ PayloadRead

\* C36 as stated: for every component, every value v in {ok, failed} and every
\* health payload exactly one of health_status[*].<c>==v and
\* health_status[*].<c>!=v evaluates to true
C36_NotEqualNegatesEqual ==
    \A c \in valid_components, v \in {<<"ok">>, <<"failed">>} :
        EqualFormEvaluated(c, v) =>
            ((check_result = "True") <=> ~HoldsOn(c, "!=", v))

\* C36 amended: at most one of health_status[*].<c>==v and
\* health_status[*].<c>!=v evaluates to true, and one of them does exactly when
\* the payload holds counts for the component and, for v = failed, one of the
\* counts is greater than 0
C36_NotEqualExcludesEqual ==
    \A c \in valid_components, v \in {<<"ok">>, <<"failed">>} :
        EqualFormEvaluated(c, v) =>
            /\ ~(check_result = "True" /\ HoldsOn(c, "!=", v))
            /\ (check_result = "True" \/ HoldsOn(c, "!=", v)) <=>
                  /\ HoldsCounts(c)
                  /\ \/ v = <<"ok">>
                     \/ CountOf(c, "failed") > 0
                     \/ CountOf(c, "passed") > 0

\* C36 witness: health_status[*].ssh==failed was evaluated to false on a payload
\* with passed = failed = 0 for ssh, on which health_status[*].ssh!=failed is
\* false as well
C36_NeitherFormHolds ==
    /\ EqualFormEvaluated(<<"ssh">>, <<"failed">>)
    /\ HoldsCounts(<<"ssh">>)
    /\ CountOf(<<"ssh">>, "failed") = 0
    /\ CountOf(<<"ssh">>, "passed") = 0
    /\ check_result = "False"
    /\ ~HoldsOn(<<"ssh">>, "!=", <<"failed">>)

-----------------------------------------------------------------------------
(* Progress tracking: claims *)

\* no thread enters a `with self._progress_lock` block while it holds the lock
NoSelfAcquire ==
    \A t \in Threads :
        (~Finished(t) /\ Head(thread_code[t]).op = "acquire") => progress_lock # t

\* the progress fields are written by the thread that holds the lock
WrittenUnderLock ==
    <<completed_tests, current_deployment, current_step>>'
        # <<completed_tests, current_deployment, current_step>>
    => \E t \in Threads :
          /\ progress_lock = t
          /\ progress_lock' = t
          /\ thread_code'[t] # thread_code[t]

AllFinished == \A t \in Threads : Finished(t)

\* C32: the completed count, the current deployment and the current step are
\* written only while holding the progress lock, no thread acquires the lock
\* while already holding it, also when a log record is emitted through the
\* progress-aware handler, and no thread waits forever for the lock: every
\* thread runs to its end
C32_ProgressLockSafe ==
    /\ []NoSelfAcquire
    /\ [][WrittenUnderLock]_vars
    /\ <>AllFinished

\* C32 witness: a worker emits a log record through the handler, holding the
\* lock, while another thread waits to enter a block and a worker's test is the
\* current deployment
C32_EmitHoldsLock ==
    \E t, u \in Threads :
        /\ t # u
        /\ progress_lock = t
        /\ ~Finished(t)
        /\ Head(thread_code[t]) = [op |-> "body", block |-> "emit"]
        /\ ~Finished(u)
        /\ Head(thread_code[u]).op = "acquire"
        /\ current_deployment # 0

-----------------------------------------------------------------------------
(* Timeout monitoring: claims *)

\* stop_timeout_monitoring has returned for the test
StopReturned(t) == worker_pc[t] \in {"stopped", "reported"}

\* C37: after stop_timeout_monitoring has returned for a test, the monitor
\* thread of that test neither starts nor is still running an emergency cleanup
\* of the test's deployment, under every interleaving of the two threads
C37_NoCleanupAfterStop ==
    \A t \in Monitored : StopReturned(t) => monitor_pc[t] # "cleanup"

\* C38: the timeout_triggered value of a test's emergency summary is true only
\* if the test's deadline expired before monitoring was stopped
C38_TimeoutReportedOnlyIfExpired ==
    \A t \in Monitored :
        emergency_summary[t] = "True" => expired_before_stop[t]

-----------------------------------------------------------------------------
(* Scheduler: termination *)

\* the resource-aware scheduler blocks in concurrent.futures.wait only on a
\* non-empty set of futures
WaitsOnRunning == pc = "wait" => running_futures # {}

\* run_tests has returned or raised
RunEnded == pc \in {"returned", "raised"}

\* C39: if every started test eventually finishes, both scheduling loops end
\* and run_tests returns; the resource-aware scheduler never waits while
\* nothing is running
C39_RunTestsReturns == []WaitsOnRunning /\ <>RunEnded

\* C39 witness: the resource-aware scheduler returned while tests were still
\* pending and nothing was running
C39_ReturnedWithPending ==
    /\ pc = "returned"
    /\ mode = "resource"
    /\ pending_tests # <<>>
    /\ running_futures = {}

====
